------------------------------ MODULE Spec2Model ------------------------------
(***************************************************************************)
(* A model of backend/python_service/vika_api_server.py: the response      *)
(* cache, the sliding-window rate limiter, the cache-key builder, the      *)
(* record handlers and the recursive folder-tree fetcher.                  *)
(*                                                                         *)
(* A Python str is a sequence of one-character strings, so that            *)
(* formatting, joining, comparison and the substring test are computed.    *)
(* Time is counted in ticks, TicksPerSecond ticks to the second.           *)
(***************************************************************************)
EXTENDS Integers, Sequences, FiniteSets, TLC

VARIABLES
    now,            \* time.time(), in ticks
    vika_client,    \* global vika_client: "None" or "Vika"
    config,         \* global config: a function from setting names to values
    cache,          \* global cache: key -> [data, timestamp]
    rate_limiter,   \* global rate_limiter: operation -> sequence of timestamps
    key_call,       \* the arguments of the last two get_cache_key calls
    key_result,     \* the keys those two calls returned
    checks,         \* history: the rate_limit_check calls made, in order
    cache_call,     \* the last call made to the cache store, with what it returned
    sets,           \* history: key -> the last set_cache of the key, and what removed it
    handlers,       \* the handlers waiting at an await, in order of arrival
    sent,           \* the response the last step sent, with its request, if it sent one
    received,       \* the number of requests received
    upstream,       \* the spreadsheet platform: the version of each list and record
    space,          \* the spreadsheet platform: the node hierarchy of the space
    traversal,      \* the running _fetch_children_recursively call: its frames and its await
    batch_written,  \* history: sheet -> the newest list version written by a batch that responded
    batch_body      \* the body of the POST /batch of the run, and whether it has been sent

vars == <<now, vika_client, config, cache, rate_limiter, key_call, key_result, checks,
          cache_call, sets, handlers, sent, received, upstream, space, traversal,
          batch_written, batch_body>>

handlerVars == <<handlers, sent, received, upstream>>

keyVars == <<key_call, key_result>>
treeVars == <<space, traversal>>
batchVars == <<batch_written, batch_body>>
cacheVars == <<cache_call, sets>>

(***************************************************************************)
(* Strings                                                                 *)
(***************************************************************************)
S_records == <<"r", "e", "c", "o", "r", "d", "s">>
S_space_id == <<"s", "p", "a", "c", "e", "_", "i", "d">>
S_spc == <<"s", "p", "c">>
S_record == <<"r", "e", "c", "o", "r", "d">>
S_views == <<"v", "i", "e", "w", "s">>
S_datasheet_id == <<"d", "a", "t", "a", "s", "h", "e", "e", "t", "_", "i", "d">>
S_record_id == <<"r", "e", "c", "o", "r", "d", "_", "i", "d">>
S_view_id == <<"v", "i", "e", "w", "_", "i", "d">>
S_page_size == <<"p", "a", "g", "e", "_", "s", "i", "z", "e">>
S_page_token == <<"p", "a", "g", "e", "_", "t", "o", "k", "e", "n">>
S_filter_formula == <<"f", "i", "l", "t", "e", "r", "_", "f", "o", "r", "m", "u", "l", "a">>
S_None == <<"N", "o", "n", "e">>
S_default == <<"d", "e", "f", "a", "u", "l", "t">>
S_X == <<"X">>
S_Y == <<"Y">>
S_R == <<"R">>
S_d == <<"d">>

\* The code points of the characters the model uses (Python compares str by code point).
CharCode ==
    [c \in {"0", "1", "2", "3", "4", "5", "6", "7", "8", "9"} |->
        CASE c = "0" -> 48 [] c = "1" -> 49 [] c = "2" -> 50 [] c = "3" -> 51
          [] c = "4" -> 52 [] c = "5" -> 53 [] c = "6" -> 54 [] c = "7" -> 55
          [] c = "8" -> 56 [] c = "9" -> 57]
    @@ (":" :> 58) @@ ("=" :> 61) @@ ("N" :> 78) @@ ("R" :> 82) @@ ("X" :> 88)
    @@ ("Y" :> 89) @@ ("_" :> 95) @@ ("a" :> 97) @@ ("b" :> 98) @@ ("c" :> 99)
    @@ ("d" :> 100) @@ ("e" :> 101) @@ ("f" :> 102) @@ ("g" :> 103) @@ ("h" :> 104)
    @@ ("i" :> 105) @@ ("k" :> 107) @@ ("l" :> 108) @@ ("m" :> 109) @@ ("n" :> 110)
    @@ ("o" :> 111) @@ ("p" :> 112) @@ ("r" :> 114) @@ ("s" :> 115) @@ ("t" :> 116)
    @@ ("u" :> 117) @@ ("v" :> 118) @@ ("w" :> 119) @@ ("z" :> 122)

\* a < b for two Python str: lexicographic by code point, a proper prefix is smaller.
RECURSIVE StrLess(_, _)
StrLess(a, b) ==
    IF b = <<>> THEN FALSE
    ELSE IF a = <<>> THEN TRUE
    ELSE IF Head(a) = Head(b) THEN StrLess(Tail(a), Tail(b))
    ELSE CharCode[Head(a)] < CharCode[Head(b)]

\* pattern in key, for two Python str.
Contains(key, pattern) ==
    \E i \in 0..(Len(key) - Len(pattern)) :
        \A j \in 1..Len(pattern) : key[i + j] = pattern[j]

\* sep.join(parts)
RECURSIVE Join(_, _)
Join(parts, sep) ==
    IF parts = <<>> THEN <<>>
    ELSE IF Len(parts) = 1 THEN parts[1]
    ELSE parts[1] \o sep \o Join(Tail(parts), sep)

(***************************************************************************)
(* Python values that reach an f-string: None, a str, an int               *)
(***************************************************************************)
PyNone == [t |-> "None"]
PyStr(s) == [t |-> "str", s |-> s]
PyInt(n) == [t |-> "int", n |-> n]

Digit(d) ==
    CASE d = 0 -> "0" [] d = 1 -> "1" [] d = 2 -> "2" [] d = 3 -> "3" [] d = 4 -> "4"
      [] d = 5 -> "5" [] d = 6 -> "6" [] d = 7 -> "7" [] d = 8 -> "8" [] d = 9 -> "9"

\* str(n) for an int n >= 0
RECURSIVE IntToStr(_)
IntToStr(n) == IF n < 10 THEN <<Digit(n)>> ELSE IntToStr(n \div 10) \o <<Digit(n % 10)>>

\* f"{v}"
Format(v) ==
    CASE v.t = "None" -> S_None
      [] v.t = "str" -> v.s
      [] v.t = "int" -> IntToStr(v.n)

(***************************************************************************)
(* get_cache_key                                                           *)
(* kwargs is the keyword arguments in call order: a sequence of            *)
(* <<name, value>> pairs with distinct names.                              *)
(***************************************************************************)
\* Insert one item into a sequence of items sorted by name.
RECURSIVE InsertItem(_, _)
InsertItem(item, sorted) ==
    IF sorted = <<>> THEN <<item>>
    ELSE IF StrLess(item[1], Head(sorted)[1]) THEN <<item>> \o sorted
    ELSE <<Head(sorted)>> \o InsertItem(item, Tail(sorted))

\* sorted(kwargs.items()): the names are distinct, so the names alone decide.
RECURSIVE SortedItems(_)
SortedItems(kwargs) ==
    IF kwargs = <<>> THEN <<>>
    ELSE InsertItem(Head(kwargs), SortedItems(Tail(kwargs)))

\* f"{k}={v}"
KeyPart(item) == item[1] \o <<"=">> \o Format(item[2])

get_cache_key(operation, kwargs) ==
    LET items == SortedItems(kwargs)
        key_parts == <<operation>> \o [i \in 1..Len(items) |-> KeyPart(items[i])]
    IN  Join(key_parts, <<":">>)

(***************************************************************************)
(* Bounds of the model                                                     *)
(***************************************************************************)
TicksPerSecond == 2     \* resolution of the clock: 1.0 second is this many ticks
MaxTime == 3            \* the clock stops here
MaxQuota == 2           \* rate_limit_qps is drawn from 0..MaxQuota
MaxChecks == 4          \* rate_limit_check calls recorded in a history
MaxAgeSeconds == 1      \* max_age is drawn from 0..MaxAgeSeconds
MaxKwargs == 3          \* keyword arguments in one get_cache_key call
MaxRequests == 3        \* requests received in one run
MaxVaryingChecks == 2   \* the same, when POST /config may change the quota in between
MaxNodes == 4           \* nodes in the hierarchy of the space
MaxTreeRequests == 1    \* requests for the tree of a space received in one run
MaxOps == 2             \* operations in the body of a POST /batch

(***************************************************************************)
(* Configuration                                                           *)
(***************************************************************************)
DefaultQps == 2

\* config.get(key, default)
ConfigGet(cfg, key, default) == IF key \in DOMAIN cfg THEN cfg[key] ELSE default

\* config.update(d)
DictUpdate(cfg, d) ==
    [k \in DOMAIN cfg \cup DOMAIN d |-> IF k \in DOMAIN d THEN d[k] ELSE cfg[k]]

\* VikaConfig(...).dict()
VikaConfig(qps) == [user_token |-> "token", api_base |-> "api", rate_limit_qps |-> qps]

EmptyDict == [k \in {} |-> 0]

(***************************************************************************)
(* Rate limiter                                                            *)
(***************************************************************************)
Operations == {S_default, S_records}

\* The pruning with <= in place of <: a timestamp exactly 1.0 s old stays counted.
PruneKeepsBoundary(ts, current_time) ==
    SelectSeq(ts, LAMBDA t : current_time - t <= TicksPerSecond)

\* [t for t in ts if current_time - t < 1.0]
Prune(ts, current_time) == SelectSeq(ts, LAMBDA t : current_time - t < TicksPerSecond)

\* The check with > in place of >=: one request too many is admitted.
rate_limit_check_off_by_one(rl, cfg, operation, current_time) ==
    LET qps_limit == ConfigGet(cfg, "rate_limit_qps", DefaultQps)
        rl1 == IF operation \in DOMAIN rl THEN rl ELSE rl @@ (operation :> <<>>)
        pruned == Prune(rl1[operation], current_time)
        rl2 == [rl1 EXCEPT ![operation] = pruned]
    IN  IF Len(pruned) > qps_limit
        THEN [allowed |-> FALSE, status |-> 429, quota |-> qps_limit, rate_limiter |-> rl2]
        ELSE [allowed |-> TRUE, status |-> 200, quota |-> qps_limit,
              rate_limiter |-> [rl2 EXCEPT ![operation] = Append(pruned, current_time)]]

\* The check with the append moved before the comparison: a denied request is recorded too.
rate_limit_check_records_denied(rl, cfg, operation, current_time) ==
    LET qps_limit == ConfigGet(cfg, "rate_limit_qps", DefaultQps)
        rl1 == IF operation \in DOMAIN rl THEN rl ELSE rl @@ (operation :> <<>>)
        pruned == Prune(rl1[operation], current_time)
        rl2 == [rl1 EXCEPT ![operation] = Append(pruned, current_time)]
    IN  IF Len(pruned) >= qps_limit
        THEN [allowed |-> FALSE, status |-> 429, quota |-> qps_limit, rate_limiter |-> rl2]
        ELSE [allowed |-> TRUE, status |-> 200, quota |-> qps_limit, rate_limiter |-> rl2]

\* rate_limit_check: has no await, so it runs without interleaving. The result
\* names the outcome (allowed, or HTTP 429 with the quota in its detail) and the
\* rate_limiter mapping the call leaves behind.
rate_limit_check(rl, cfg, operation, current_time) ==
    LET qps_limit == ConfigGet(cfg, "rate_limit_qps", DefaultQps)
        rl1 == IF operation \in DOMAIN rl THEN rl ELSE rl @@ (operation :> <<>>)
        pruned == Prune(rl1[operation], current_time)
        rl2 == [rl1 EXCEPT ![operation] = pruned]
    IN  IF Len(pruned) >= qps_limit
        THEN [allowed |-> FALSE, status |-> 429, quota |-> qps_limit, rate_limiter |-> rl2]
        ELSE [allowed |-> TRUE, status |-> 200, quota |-> qps_limit,
              rate_limiter |-> [rl2 EXCEPT ![operation] = Append(pruned, current_time)]]

(***************************************************************************)
(* Cache store                                                             *)
(* max_age is in seconds, as the handlers pass it; a timestamp is in ticks.*)
(***************************************************************************)
\* del c[key]
DictDel(c, keys) == [k \in DOMAIN c \ keys |-> c[k]]

\* The read with <= in place of <: an entry exactly max_age old is still served.
get_from_cache_serves_boundary(c, key, max_age, t) ==
    IF key \in DOMAIN c
    THEN IF t - c[key].timestamp <= max_age * TicksPerSecond
         THEN [result |-> c[key].data, cache |-> c]
         ELSE [result |-> PyNone, cache |-> DictDel(c, {key})]
    ELSE [result |-> PyNone, cache |-> c]

\* get_from_cache: the value returned (None for absent) and the cache left behind
get_from_cache(c, key, max_age, t) ==
    IF key \in DOMAIN c
    THEN IF t - c[key].timestamp < max_age * TicksPerSecond
         THEN [result |-> c[key].data, cache |-> c]
         ELSE [result |-> PyNone, cache |-> DictDel(c, {key})]
    ELSE [result |-> PyNone, cache |-> c]

\* set_cache
set_cache(c, key, data, t) ==
    [k \in DOMAIN c \cup {key} |->
        IF k = key THEN [data |-> data, timestamp |-> t] ELSE c[k]]

\* key.startswith(pattern)
StartsWith(key, pattern) ==
    Len(pattern) <= Len(key) /\ \A j \in 1..Len(pattern) : key[j] = pattern[j]

\* The invalidation with a prefix test in place of the substring test.
clear_cache_pattern_by_prefix(c, pattern) ==
    LET keys_to_delete == {key \in DOMAIN c : StartsWith(key, pattern)}
    IN  DictDel(c, keys_to_delete)

\* clear_cache_pattern
clear_cache_pattern(c, pattern) ==
    LET keys_to_delete == {key \in DOMAIN c : Contains(key, pattern)}
    IN  DictDel(c, keys_to_delete)

(***************************************************************************)
(* The spreadsheet platform behind the astral_vika client                  *)
(***************************************************************************)
Sheets == {S_X, S_d}
Records == {S_R}

\* Every list and every record starts at version 0; a write that succeeds makes a
\* new version of what it changes.
UpstreamAtStart ==
    [lists |-> [sh \in Sheets |-> 0], records |-> [sh \in Sheets |-> [r \in Records |-> 0]]]

(***************************************************************************)
(* The node hierarchy of a space, as space.nodes serves it                 *)
(***************************************************************************)
NodeIds == 1..MaxNodes
NodeTypes == {"Folder", "Datasheet"}

\* A space without nodes
EmptySpace ==
    [top |-> <<>>, type |-> [id \in NodeIds |-> "Datasheet"], children |-> [id \in NodeIds |-> <<>>]]

\* The orders in which the platform may list the nodes
Orders == {order \in [NodeIds -> NodeIds] : \A i, j \in NodeIds : i # j => order[i] # order[j]}

\* Each node lies in one folder or at the top level (0); a folder is older than
\* what it holds, so that no folder is its own descendant
Parents == {parent \in [NodeIds -> 0..MaxNodes] : \A id \in NodeIds : parent[id] < id}

\* The nodes held by a folder (or by the top level), as the platform lists them
Held(order, parent, holder) == SelectSeq(order, LAMBDA id : parent[id] = holder)

\* The hierarchies: only a folder holds nodes, and a folder may hold none
Spaces ==
    {[top |-> Held(order, parent, 0), type |-> type,
      children |-> [id \in NodeIds |-> Held(order, parent, id)]] :
        <<order, parent, type>> \in
            {h \in Orders \X Parents \X [NodeIds -> NodeTypes] :
                \A id \in NodeIds : h[2][id] # 0 => h[3][h[2][id]] = "Folder"}}

\* The Node object the client library builds for a node
Node(s, id) ==
    [id |-> id, name |-> <<"name", id>>, type |-> s.type[id], icon |-> <<"icon", id>>]

\* space.nodes.aall(): the Node objects of the top level
top_level_nodes(s) == [k \in 1..Len(s.top) |-> Node(s, s.top[k])]

\* space.nodes.aget(id): the detail record of a folder, with its children
folder_details(s, id) ==
    [id |-> id, children |-> [k \in 1..Len(s.children[id]) |-> Node(s, s.children[id][k])]]

(***************************************************************************)
(* The state after the module is loaded                                    *)
(***************************************************************************)
NothingWritten == [sh \in Sheets |-> 0]
NoBatch == [sent |-> TRUE, operations |-> <<>>]

NotStarted == [pc |-> "not started"]

NoCall == [made |-> FALSE]

Init ==
    /\ now = 0
    /\ vika_client = "None"
    /\ config = EmptyDict
    /\ cache = EmptyDict
    /\ rate_limiter = EmptyDict
    /\ key_call = NoCall
    /\ key_result = NoCall
    /\ checks = <<>>
    /\ cache_call = NoCall
    /\ sets = EmptyDict
    /\ handlers = <<>>
    /\ sent = NoCall
    /\ received = 0
    /\ upstream = UpstreamAtStart
    /\ space = EmptySpace
    /\ traversal = NotStarted
    /\ batch_written = NothingWritten
    /\ batch_body = NoBatch

\* time.time() moves on
Tick ==
    /\ now < MaxTime
    /\ now' = now + 1
    /\ sent' = NoCall
    /\ UNCHANGED <<batchVars, treeVars, vika_client, config, cache, rate_limiter, checks, keyVars, cacheVars,
                   handlers, received, upstream>>

\* time.time() moves on by a second: the requests of the handlers arrive on the second
SecondPasses ==
    /\ now + TicksPerSecond <= MaxTime
    /\ now' = now + TicksPerSecond
    /\ sent' = NoCall
    /\ UNCHANGED <<batchVars, treeVars, vika_client, config, cache, rate_limiter, checks, keyVars, cacheVars,
                   handlers, received, upstream>>

(***************************************************************************)
(* POST /config, where the requests received are not recorded              *)
(***************************************************************************)
\* set_config, Vika(...) returns
Configure(qps) ==
    /\ config' = DictUpdate(config, VikaConfig(qps))
    /\ vika_client' = "Vika"
    /\ UNCHANGED <<batchVars, treeVars, now, cache, rate_limiter, checks, keyVars, cacheVars, handlerVars>>

(***************************************************************************)
(* The rate limiter on its own: admission checks, the clock, POST /config  *)
(***************************************************************************)
\* One call of rate_limit_check, recorded with the mapping before and after it.
RateLimitCheckCall(operation) ==
    /\ Len(checks) < MaxChecks
    /\ LET r == rate_limit_check(rate_limiter, config, operation, now)
       IN  /\ rate_limiter' = r.rate_limiter
           /\ checks' = Append(checks, [operation |-> operation, time |-> now,
                                        allowed |-> r.allowed, status |-> r.status,
                                        quota |-> r.quota,
                                        before |-> rate_limiter, after |-> r.rate_limiter])
    /\ UNCHANGED <<batchVars, treeVars, now, vika_client, config, cache, keyVars, cacheVars, handlerVars>>

\* The quota may change between checks: a shorter history is kept.
CheckUnderChangingQuota(operation) ==
    Len(checks) < MaxVaryingChecks /\ RateLimitCheckCall(operation)

NextLimiter ==
    \/ Tick
    \/ \E operation \in Operations : CheckUnderChangingQuota(operation)
    \/ \E qps \in 0..MaxQuota : Configure(qps)

SpecLimiter == Init /\ [][NextLimiter]_vars

\* The quota is fixed: POST /config sets a quota >= 1 before the first admission check.
ConfigureBeforeTraffic(qps) == checks = <<>> /\ Configure(qps)

NextFixedQuota ==
    \/ Tick
    \/ \E operation \in Operations : RateLimitCheckCall(operation)
    \/ \E qps \in 1..MaxQuota : ConfigureBeforeTraffic(qps)

SpecFixedQuota == Init /\ [][NextFixedQuota]_vars

(***************************************************************************)
(* get_cache_key on its own: two calls for one operation                   *)
(***************************************************************************)
ParamNames == {S_datasheet_id, S_view_id, S_page_size}

\* What a request can put in each parameter: a path parameter is a str, an absent
\* Optional[str] query parameter is None, page_size is an int.
ParamValues(name) ==
    CASE name = S_datasheet_id -> {PyStr(S_X), PyStr(S_Y)}
      [] name = S_view_id -> {PyNone, PyStr(S_X), PyStr(S_None)}
      [] name = S_page_size -> {PyInt(100), PyInt(20)}

Items == UNION {{<<name, v>> : v \in ParamValues(name)} : name \in ParamNames}

\* The keyword arguments of a call, in any call order: no name twice.
KwargsOfLen(n) ==
    {kw \in [1..n -> Items] : \A i, j \in 1..n : kw[i][1] = kw[j][1] => i = j}

AllKwargs == UNION {KwargsOfLen(n) : n \in 0..MaxKwargs}

\* The two calls to make: drawn when the run starts.
InitKey ==
    /\ now = 0
    /\ vika_client = "None"
    /\ config = EmptyDict
    /\ cache = EmptyDict
    /\ rate_limiter = EmptyDict
    /\ key_call \in [made : {TRUE}, operation : {S_records, S_record},
                      kwargs1 : AllKwargs, kwargs2 : AllKwargs]
    /\ key_result = NoCall
    /\ checks = <<>>
    /\ cache_call = NoCall
    /\ sets = EmptyDict
    /\ handlers = <<>>
    /\ sent = NoCall
    /\ received = 0
    /\ upstream = UpstreamAtStart
    /\ space = EmptySpace
    /\ traversal = NotStarted
    /\ batch_written = NothingWritten
    /\ batch_body = NoBatch

GetCacheKeyCalls ==
    /\ ~key_result.made
    /\ key_result' = [made |-> TRUE,
                      key1 |-> get_cache_key(key_call.operation, key_call.kwargs1),
                      key2 |-> get_cache_key(key_call.operation, key_call.kwargs2)]
    /\ UNCHANGED <<batchVars, treeVars, now, vika_client, config, cache, rate_limiter, checks, key_call, cacheVars, handlerVars>>

NextKey == GetCacheKeyCalls

SpecKey == InitKey /\ [][NextKey]_vars

ItemSet(kwargs) == {kwargs[i] : i \in DOMAIN kwargs}
NameSet(kwargs) == {kwargs[i][1] : i \in DOMAIN kwargs}

\* C9: two calls with the same operation and the same name/value pairs give the same
\* key whatever the keyword order, and two calls to the same operation with the same
\* parameter names that differ in the value of a parameter give different keys.
C9_OrderIndependentAndSeparating ==
    key_result.made =>
        /\ ItemSet(key_call.kwargs1) = ItemSet(key_call.kwargs2)
               => key_result.key1 = key_result.key2
        /\ ( /\ NameSet(key_call.kwargs1) = NameSet(key_call.kwargs2)
             /\ ItemSet(key_call.kwargs1) # ItemSet(key_call.kwargs2) )
               => key_result.key1 # key_result.key2

\* The first half of C9 alone: the key does not depend on the keyword order.
KeyOrderIndependent ==
    key_result.made =>
        ( ItemSet(key_call.kwargs1) = ItemSet(key_call.kwargs2)
              => key_result.key1 = key_result.key2 )

(***************************************************************************)
(* The cache store on its own: set, get, DELETE /cache, the clock          *)
(***************************************************************************)
\* "records:X:page1"
S_records_X_page1 ==
    <<"r", "e", "c", "o", "r", "d", "s", ":", "X", ":", "p", "a", "g", "e", "1">>

\* The keys in use: the key get_record builds for record R of sheet X, and a list key.
CacheKeys ==
    { get_cache_key(S_record, <<<<S_datasheet_id, PyStr(S_X)>>, <<S_record_id, PyStr(S_R)>>>>),
      S_records_X_page1 }

\* The patterns DELETE /cache is called with
Patterns ==
    { S_records \o <<":">> \o S_X,      \* "records:X"
      S_record,                         \* "record"
      S_record_id,                      \* "record_id"
      <<"X", ":">>,                     \* "X:"
      <<"p", "a", "g", "e">> }          \* "page"

Datas == {[t |-> "data", v |-> 1], [t |-> "data", v |-> 2]}

\* The history of a key after set_cache(key, data)
SetNow(key, data) == [data |-> data, at |-> now, removed |-> "no"]

\* The history after the entries of the given keys were removed
MarkRemoved(keys, how) ==
    [k \in DOMAIN sets |->
        IF k \in keys /\ sets[k].removed = "no"
        THEN [sets[k] EXCEPT !.removed = how] ELSE sets[k]]

\* pattern occurs in key
IsSubstring(pattern, key) ==
    \E i \in 1..(Len(key) - Len(pattern) + 1) :
        SubSeq(key, i, i + Len(pattern) - 1) = pattern

SetCacheCall(key, data) ==
    /\ cache' = set_cache(cache, key, data, now)
    /\ cache_call' = [made |-> TRUE, op |-> "set_cache", key |-> key, data |-> data]
    /\ sets' = [k \in DOMAIN sets \cup {key} |->
                    IF k = key THEN SetNow(key, data) ELSE sets[k]]
    /\ UNCHANGED <<batchVars, treeVars, now, vika_client, config, rate_limiter, checks, keyVars, handlerVars>>

GetFromCacheCall(key, max_age) ==
    /\ LET r == get_from_cache(cache, key, max_age, now)
       IN  /\ cache' = r.cache
           /\ cache_call' = [made |-> TRUE, op |-> "get_from_cache", key |-> key,
                             max_age |-> max_age, time |-> now, result |-> r.result,
                             known |-> key \in DOMAIN sets,
                             last_set |-> IF key \in DOMAIN sets THEN sets[key]
                                          ELSE NoCall]
    /\ sets' = IF key \in DOMAIN sets /\ now - sets[key].at >= max_age * TicksPerSecond
               THEN MarkRemoved({key}, "expired read") ELSE sets
    /\ UNCHANGED <<batchVars, treeVars, now, vika_client, config, rate_limiter, checks, keyVars, handlerVars>>

\* DELETE /cache?pattern=...: a non-empty pattern
clear_cache(pattern) ==
    /\ pattern # <<>>
    /\ cache' = clear_cache_pattern(cache, pattern)
    /\ cache_call' = [made |-> TRUE, op |-> "clear_cache_pattern", pattern |-> pattern,
                      before |-> cache]
    /\ sets' = MarkRemoved({k \in DOMAIN sets : IsSubstring(pattern, k)}, "invalidated")
    /\ UNCHANGED <<batchVars, treeVars, now, vika_client, config, rate_limiter, checks, keyVars, handlerVars>>

\* DELETE /cache with no pattern, or an empty one: cache.clear()
clear_cache_all ==
    /\ cache' = EmptyDict
    /\ cache_call' = [made |-> TRUE, op |-> "clear"]
    /\ sets' = MarkRemoved(DOMAIN sets, "cleared")
    /\ UNCHANGED <<batchVars, treeVars, now, vika_client, config, rate_limiter, checks, keyVars, handlerVars>>

NextCache ==
    \/ Tick
    \/ \E key \in CacheKeys, data \in Datas : SetCacheCall(key, data)
    \/ \E key \in CacheKeys, max_age \in 0..MaxAgeSeconds : GetFromCacheCall(key, max_age)
    \/ \E pattern \in Patterns : clear_cache(pattern)
    \/ clear_cache_all

SpecCache == Init /\ [][NextCache]_vars

\* C7: get(key, max_age) returns v exactly when v is the value of the most recent
\* set(key, .), that set was made strictly less than max_age ago, and the entry has
\* not been removed since by an invalidation, a full clear or an earlier get that
\* found it expired; otherwise it returns None and the key is not in the cache.
C7_GetReturnsLiveValue ==
    (cache_call.made /\ cache_call.op = "get_from_cache") =>
        LET h == cache_call.last_set
            live == /\ cache_call.known
                    /\ h.removed = "no"
                    /\ cache_call.time - h.at < cache_call.max_age * TicksPerSecond
        IN  IF live
            THEN cache_call.result = h.data
            ELSE cache_call.result = PyNone /\ cache_call.key \notin DOMAIN cache

\* C7 witness: a get finds nothing although its max_age covers the last set of the
\* key, because an earlier get with a smaller max_age found the entry expired.
C7_Witness ==
    /\ cache_call.made
    /\ cache_call.op = "get_from_cache"
    /\ cache_call.result = PyNone
    /\ cache_call.known
    /\ cache_call.last_set.removed = "expired read"
    /\ cache_call.time - cache_call.last_set.at < cache_call.max_age * TicksPerSecond

\* C8: clear_cache_pattern(pattern) removes exactly the entries whose key contains
\* pattern as a substring; every other entry keeps its value and its timestamp.
C8_PatternRemovesExactlyMatches ==
    (cache_call.made /\ cache_call.op = "clear_cache_pattern") =>
        /\ DOMAIN cache =
              {k \in DOMAIN cache_call.before : ~IsSubstring(cache_call.pattern, k)}
        /\ \A k \in DOMAIN cache : cache[k] = cache_call.before[k]

\* C8 witness: an invalidation removed an entry whose key holds the pattern past its
\* start and kept an entry whose key does not hold it.
C8_Witness ==
    /\ cache_call.made
    /\ cache_call.op = "clear_cache_pattern"
    /\ \E k \in DOMAIN cache_call.before :
          /\ k \notin DOMAIN cache
          /\ ~StartsWith(k, cache_call.pattern)
    /\ \E k \in DOMAIN cache : cache[k] = cache_call.before[k]

(***************************************************************************)
(* Claims about the rate limiter                                           *)
(***************************************************************************)
\* The quota in force
Quota == ConfigGet(config, "rate_limit_qps", DefaultQps)

\* The recorded checks of one operation, in order
OpChecks(operation) == SelectSeq(checks, LAMBDA c : c.operation = operation)

\* The admitted checks of an operation whose time lies in the window (t - 1.0 s, t]
AdmittedIn(operation, t) ==
    {i \in DOMAIN checks :
        /\ checks[i].operation = operation
        /\ checks[i].allowed
        /\ t - TicksPerSecond < checks[i].time
        /\ checks[i].time <= t}

\* C3: with a fixed quota q >= 1, for every operation, the admitted requests whose
\* admission times fall in any window (t - 1.0 s, t] number at most q, and the stored
\* timestamp list of the operation holds at most q entries after every check.
C3_QuotaPerWindow ==
    \A operation \in Operations :
        /\ \A t \in 0..MaxTime : Cardinality(AdmittedIn(operation, t)) <= Quota
        /\ \A i \in DOMAIN checks :
              checks[i].operation = operation
                  => Len(checks[i].after[operation]) <= Quota

\* C3 witness: a window holds exactly q admitted requests of an operation and a
\* further check of that operation in the window was denied.
C3_Witness ==
    \E i \in DOMAIN checks :
        /\ ~checks[i].allowed
        /\ Cardinality(AdmittedIn(checks[i].operation, checks[i].time)) = Quota
        /\ Len(rate_limiter[checks[i].operation]) = Quota

\* q + 1 consecutive checks of the operation, from the i-th on, made within less than
\* 1 second, the first of them finding no admission of the last second.
BurstAt(c, i, q) ==
    /\ i + q <= Len(c)
    /\ c[i + q].time - c[i].time < TicksPerSecond
    /\ \A j \in 1..(i - 1) : c[j].allowed => c[i].time - c[j].time >= TicksPerSecond

\* The check is made at least 1.0 s after the oldest timestamp stored for its operation.
OldestExpired(c) ==
    /\ c.operation \in DOMAIN c.before
    /\ c.before[c.operation] # <<>>
    /\ c.time - Head(c.before[c.operation]) >= TicksPerSecond

\* C4: with quota q, q + 1 checks of one operation within less than 1 second are
\* allowed q times and then denied; and a check made at least 1.0 s after the oldest
\* timestamp still stored for the operation is allowed.
C4_BurstThenRecovery ==
    /\ \A operation \in Operations :
          LET c == OpChecks(operation)
          IN  \A i \in DOMAIN c :
                  BurstAt(c, i, Quota)
                      => /\ \A k \in i..(i + Quota - 1) : c[k].allowed
                         /\ ~c[i + Quota].allowed
    /\ \A i \in DOMAIN checks : OldestExpired(checks[i]) => checks[i].allowed

\* C4 witness: a burst of q + 1 checks ended in a denial, and a later check of the
\* same operation, 1.0 s or more after the oldest stored timestamp, was allowed.
C4_Witness ==
    \E operation \in Operations :
        LET c == OpChecks(operation)
        IN  \E i \in DOMAIN c :
                /\ BurstAt(c, i, Quota)
                /\ ~c[i + Quota].allowed
                /\ \E j \in (i + Quota + 1)..Len(c) : OldestExpired(c[j]) /\ c[j].allowed

\* C5 as claimed: a denied check leaves the rate_limiter mapping exactly as it was.
C5_DeniedCheckChangesNothing ==
    \A i \in DOMAIN checks : ~checks[i].allowed => checks[i].after = checks[i].before

\* C5 as amended: a denied check appends no timestamp and removes none that is less
\* than 1.0 s old: the operation's list is the list before the call without its
\* entries 1.0 s old or older (an empty list for an operation not seen before), and
\* every other operation's entry is as before.
C5_DeniedCheckOnlyPrunes ==
    \A i \in DOMAIN checks :
        LET c == checks[i]
            old == IF c.operation \in DOMAIN c.before THEN c.before[c.operation] ELSE <<>>
        IN  ~c.allowed
                => /\ DOMAIN c.after = DOMAIN c.before \cup {c.operation}
                   /\ \A o \in DOMAIN c.before \ {c.operation} : c.after[o] = c.before[o]
                   /\ c.after[c.operation] =
                          SelectSeq(old, LAMBDA t : c.time - t < TicksPerSecond)

\* C5 witness: a denied check that dropped an expired timestamp of its operation.
C5_Witness ==
    \E i \in DOMAIN checks :
        /\ ~checks[i].allowed
        /\ checks[i].operation \in DOMAIN checks[i].before
        /\ Len(checks[i].after[checks[i].operation])
               < Len(checks[i].before[checks[i].operation])

(***************************************************************************)
(* The record handlers                                                     *)
(* A handler runs without interleaving from the arrival of its request to  *)
(* its first await (the dependencies, the cache lookup), waits for the     *)
(* platform, and runs without interleaving again from the platform's       *)
(* answer to its response.                                                 *)
(***************************************************************************)
MaxAgeRecords == 300
MaxAgeViews == 3600
DefaultPageSize == 100

Reads == {"get_records", "get_record", "get_views"}

\* max_age, if every read handler passed the 3600 seconds of the views
MaxAgeOfViewsForAll(kind) == MaxAgeViews

\* max_age, as each read handler passes it to get_from_cache
MaxAgeOf(kind) == IF kind = "get_views" THEN MaxAgeViews ELSE MaxAgeRecords

\* The dependencies with the admission check caught by the handler's except clause:
\* a denial comes out as the generic failure.
DependsInsideTry(client, rl, cfg, operation, t) ==
    IF client = "None"
    THEN [ok |-> FALSE, status |-> 500, admission |-> "not checked", quota |-> 0,
          rate_limiter |-> rl, trace |-> <<"get_vika_client">>]
    ELSE LET r == rate_limit_check(rl, cfg, operation, t)
         IN  [ok |-> r.allowed, status |-> IF r.allowed THEN 200 ELSE 500,
              admission |-> IF r.allowed THEN "allowed" ELSE "denied",
              quota |-> r.quota, rate_limiter |-> r.rate_limiter,
              trace |-> <<"get_vika_client", "rate_limit_check">>]

\* Depends(get_vika_client), then Depends(rate_limit_check): resolved in this order
\* before the handler's body, outside its try block.
Depends(client, rl, cfg, operation, t) ==
    IF client = "None"
    THEN [ok |-> FALSE, status |-> 500, admission |-> "not checked", quota |-> 0,
          rate_limiter |-> rl, trace |-> <<"get_vika_client">>]
    ELSE LET r == rate_limit_check(rl, cfg, operation, t)
         IN  [ok |-> r.allowed, status |-> r.status,
              admission |-> IF r.allowed THEN "allowed" ELSE "denied",
              quota |-> r.quota, rate_limiter |-> r.rate_limiter,
              trace |-> <<"get_vika_client", "rate_limit_check">>]

\* The keyword arguments get_records passes to get_cache_key, in call order
RecordsKwargs(datasheet_id, view_id) ==
    << <<S_datasheet_id, PyStr(datasheet_id)>>, <<S_view_id, view_id>>,
       <<S_page_size, PyInt(DefaultPageSize)>>, <<S_page_token, PyNone>>,
       <<S_filter_formula, PyNone>> >>

\* The keyword arguments get_record passes to get_cache_key
RecordKwargs(datasheet_id, record_id) ==
    << <<S_datasheet_id, PyStr(datasheet_id)>>, <<S_record_id, PyStr(record_id)>> >>

CacheKeyOf(req) ==
    CASE req.kind = "get_records" ->
             get_cache_key(S_records, RecordsKwargs(req.datasheet_id, req.view_id))
      [] req.kind = "get_record" ->
             get_cache_key(S_record, RecordKwargs(req.datasheet_id, req.record_id))
      [] req.kind = "get_views" ->
             get_cache_key(S_views, << <<S_datasheet_id, PyStr(req.datasheet_id)>> >>)
      [] OTHER -> <<>>

\* f"records:{datasheet_id}"
RecordsPattern(datasheet_id) == S_records \o <<":">> \o datasheet_id

\* f"record:{datasheet_id}:{record_id}"
RecordPattern(datasheet_id, record_id) ==
    S_record \o <<":">> \o datasheet_id \o <<":">> \o record_id

\* s without its i-th element
RemoveAt(s, i) == SubSeq(s, 1, i - 1) \o SubSeq(s, i + 1, Len(s))

\* The response a handler sends
Response(status, from_cache, data) ==
    [status |-> status, from_cache |-> from_cache, data |-> data]

\* A request arrives, if a read looked in the cache before the admission check: a
\* hit is answered without a timestamp
ArriveCacheFirst(req) ==
    /\ received < MaxRequests
    /\ received' = received + 1
    /\ LET key == CacheKeyOf(req)
           g == get_from_cache(cache, key, MaxAgeOf(req.kind), now)
           hit == vika_client # "None" /\ req.kind \in Reads /\ g.result # PyNone
           d == IF hit
                THEN [ok |-> TRUE, status |-> 200, admission |-> "not checked", quota |-> 0,
                      rate_limiter |-> rate_limiter, trace |-> <<"get_vika_client">>]
                ELSE Depends(vika_client, rate_limiter, config, req.operation, now)
           h == [made |-> TRUE, kind |-> req.kind, datasheet_id |-> req.datasheet_id,
                 record_id |-> req.record_id, view_id |-> req.view_id,
                 operation |-> req.operation, cache_key |-> key,
                 admission |-> d.admission, quota |-> d.quota,
                 pc |-> "done", result |-> NoCall, response |-> NoCall, trace |-> d.trace]
       IN  /\ rate_limiter' = d.rate_limiter
           /\ IF ~d.ok
              THEN /\ cache' = cache
                   /\ handlers' = handlers
                   /\ sent' = [h EXCEPT !.response = Response(d.status, "absent", PyNone)]
              ELSE IF hit
              THEN /\ cache' = g.cache
                   /\ handlers' = handlers
                   /\ sent' = [h EXCEPT !.trace = @ \o <<"get_from_cache">>,
                                        !.response = Response(200, "True", g.result)]
              ELSE IF req.kind \in Reads
              THEN /\ cache' = g.cache
                   /\ handlers' = Append(handlers,
                          [h EXCEPT !.trace = @ \o <<"get_from_cache", "upstream call">>,
                                    !.pc = "awaiting"])
                   /\ sent' = NoCall
              ELSE /\ cache' = cache
                   /\ handlers' = Append(handlers,
                          [h EXCEPT !.trace = @ \o <<"upstream call">>, !.pc = "awaiting"])
                   /\ sent' = NoCall
    /\ UNCHANGED <<batchVars, treeVars, now, vika_client, config, checks, keyVars, cacheVars, upstream>>

\* A request arrives: the dependencies, then the body up to its first await.
Arrive(req) ==
    /\ received < MaxRequests
    /\ received' = received + 1
    /\ LET d == Depends(vika_client, rate_limiter, config, req.operation, now)
           key == CacheKeyOf(req)
           g == get_from_cache(cache, key, MaxAgeOf(req.kind), now)
           hit == req.kind \in Reads /\ g.result # PyNone
           h == [made |-> TRUE, kind |-> req.kind, datasheet_id |-> req.datasheet_id,
                 record_id |-> req.record_id, view_id |-> req.view_id,
                 operation |-> req.operation, cache_key |-> key,
                 admission |-> d.admission, quota |-> d.quota,
                 pc |-> "done", result |-> NoCall, response |-> NoCall, trace |-> d.trace]
       IN  /\ rate_limiter' = d.rate_limiter
           /\ IF ~d.ok
              THEN /\ cache' = cache
                   /\ handlers' = handlers
                   /\ sent' = [h EXCEPT !.response = Response(d.status, "absent", PyNone)]
              ELSE IF hit
              THEN /\ cache' = g.cache
                   /\ handlers' = handlers
                   /\ sent' = [h EXCEPT !.trace = @ \o <<"get_from_cache">>,
                                        !.response = Response(200, "True", g.result)]
              ELSE IF req.kind \in Reads
              THEN /\ cache' = g.cache
                   /\ handlers' = Append(handlers,
                          [h EXCEPT !.trace = @ \o <<"get_from_cache", "upstream call">>,
                                    !.pc = "awaiting"])
                   /\ sent' = NoCall
              ELSE /\ cache' = cache
                   /\ handlers' = Append(handlers,
                          [h EXCEPT !.trace = @ \o <<"upstream call">>, !.pc = "awaiting"])
                   /\ sent' = NoCall
    /\ UNCHANGED <<batchVars, treeVars, now, vika_client, config, checks, keyVars, cacheVars, upstream>>

\* POST /config, if a failing Vika(...) left the service without its client
SetConfigDropsClient(qps, raises) ==
    /\ received < MaxRequests
    /\ received' = received + 1
    /\ config' = DictUpdate(config, VikaConfig(qps))
    /\ vika_client' = IF raises THEN "None" ELSE "Vika"
    /\ sent' = [made |-> TRUE, kind |-> "set_config", datasheet_id |-> <<>>,
                record_id |-> <<>>, view_id |-> PyNone, operation |-> <<>>,
                cache_key |-> <<>>, admission |-> "not checked", quota |-> qps,
                pc |-> "done", result |-> NoCall,
                response |-> Response(IF raises THEN 500 ELSE 200, "absent", PyNone),
                trace |-> <<>>]
    /\ UNCHANGED <<batchVars, treeVars, now, cache, rate_limiter, checks, keyVars, cacheVars,
                   handlers, upstream>>

\* POST /config: config.update(...) runs first; Vika(...) returns or raises.
SetConfig(qps, raises) ==
    /\ received < MaxRequests
    /\ received' = received + 1
    /\ config' = DictUpdate(config, VikaConfig(qps))
    /\ vika_client' = IF raises THEN vika_client ELSE "Vika"
    /\ sent' = [made |-> TRUE, kind |-> "set_config", datasheet_id |-> <<>>,
                record_id |-> <<>>, view_id |-> PyNone, operation |-> <<>>,
                cache_key |-> <<>>, admission |-> "not checked", quota |-> qps,
                pc |-> "done", result |-> NoCall,
                response |-> Response(IF raises THEN 500 ELSE 200, "absent", PyNone),
                trace |-> <<>>]
    /\ UNCHANGED <<batchVars, treeVars, now, cache, rate_limiter, checks, keyVars, cacheVars, handlers, upstream>>

set_config(qps) == SetConfig(qps, FALSE)

set_config_raises(qps) == SetConfig(qps, TRUE)

Request(kind, datasheet_id, record_id, view_id, operation) ==
    [kind |-> kind, datasheet_id |-> datasheet_id, record_id |-> record_id,
     view_id |-> view_id, operation |-> operation]

\* POST /records
create_records(datasheet_id, operation) ==
    Arrive(Request("create_records", datasheet_id, <<>>, PyNone, operation))

\* GET /records/{datasheet_id}
get_records(datasheet_id, view_id, operation) ==
    Arrive(Request("get_records", datasheet_id, <<>>, view_id, operation))

\* GET /records/{datasheet_id}/{record_id}
get_record(datasheet_id, record_id, operation) ==
    Arrive(Request("get_record", datasheet_id, record_id, PyNone, operation))

\* GET /datasheets/{datasheet_id}/views
get_views(datasheet_id, operation) ==
    Arrive(Request("get_views", datasheet_id, <<>>, PyNone, operation))

\* PUT /records
update_record(datasheet_id, record_id, operation) ==
    Arrive(Request("update_record", datasheet_id, record_id, PyNone, operation))

\* DELETE /records/{datasheet_id}/{record_id}
delete_record(datasheet_id, record_id, operation) ==
    Arrive(Request("delete_record", datasheet_id, record_id, PyNone, operation))

\* What the platform holds after the call of a handler has been applied
UpstreamAfter(q) ==
    CASE q.kind = "create_records" ->
             [upstream EXCEPT !.lists[q.datasheet_id] = @ + 1]
      [] q.kind \in {"update_record", "delete_record"} ->
             [upstream EXCEPT !.lists[q.datasheet_id] = @ + 1,
                              !.records[q.datasheet_id][q.record_id] = @ + 1]
      [] OTHER -> upstream

\* What the platform answers
UpstreamData(q) ==
    CASE q.kind = "get_records" ->
             [t |-> "list", datasheet_id |-> q.datasheet_id, view_id |-> q.view_id,
              version |-> upstream.lists[q.datasheet_id]]
      [] q.kind = "get_record" ->
             [t |-> "record", datasheet_id |-> q.datasheet_id, record_id |-> q.record_id,
              version |-> upstream.records[q.datasheet_id][q.record_id]]
      [] q.kind = "get_views" ->
             [t |-> "views", datasheet_id |-> q.datasheet_id]
      [] OTHER ->
             [t |-> "written", datasheet_id |-> q.datasheet_id,
              version |-> UpstreamAfter(q).lists[q.datasheet_id]]

\* The awaited call of the client returns
UpstreamAnswers(h) ==
    /\ handlers[h].pc = "awaiting"
    /\ upstream' = UpstreamAfter(handlers[h])
    /\ handlers' = [handlers EXCEPT
                        ![h].pc = "returned",
                        ![h].result = [made |-> TRUE, ok |-> TRUE,
                                       data |-> UpstreamData(handlers[h])]]
    /\ sent' = NoCall
    /\ UNCHANGED <<batchVars, treeVars, now, vika_client, config, cache, rate_limiter, checks, keyVars, cacheVars,
                   received>>

\* The awaited call of the client raises
UpstreamFails(h) ==
    /\ handlers[h].pc = "awaiting"
    /\ handlers' = [handlers EXCEPT
                        ![h].pc = "returned",
                        ![h].result = [made |-> TRUE, ok |-> FALSE, data |-> PyNone]]
    /\ sent' = NoCall
    /\ UNCHANGED <<batchVars, treeVars, now, vika_client, config, cache, rate_limiter, checks, keyVars, cacheVars,
                   received, upstream>>

\* The cache a handler leaves behind after the platform answered
CacheAfter(q) ==
    CASE q.kind \in Reads -> set_cache(cache, q.cache_key, q.result.data, now)
      [] q.kind = "create_records" ->
             clear_cache_pattern(cache, RecordsPattern(q.datasheet_id))
      [] q.kind \in {"update_record", "delete_record"} ->
             clear_cache_pattern(
                 clear_cache_pattern(cache, RecordPattern(q.datasheet_id, q.record_id)),
                 RecordsPattern(q.datasheet_id))

\* The handler goes on after its await, if a read whose call raised stored None
\* under its key before failing
ResumeStoresOnFailure(h) ==
    /\ handlers[h].pc = "returned"
    /\ handlers' = RemoveAt(handlers, h)
    /\ LET q == handlers[h]
       IN  IF q.result.ok
           THEN /\ cache' = CacheAfter(q)
                /\ sent' = [q EXCEPT
                       !.pc = "done",
                       !.trace = @ \o <<IF q.kind \in Reads THEN "set_cache"
                                        ELSE "clear_cache_pattern">>,
                       !.response = Response(200,
                                             IF q.kind \in Reads THEN "False" ELSE "absent",
                                             q.result.data)]
           ELSE /\ cache' = IF q.kind \in Reads
                            THEN set_cache(cache, q.cache_key, q.result.data, now)
                            ELSE cache
                /\ sent' = [q EXCEPT !.pc = "done",
                                     !.response = Response(500, "absent", PyNone)]
    /\ UNCHANGED <<batchVars, treeVars, now, vika_client, config, rate_limiter, checks, keyVars, cacheVars,
                   received, upstream>>

\* The handler goes on after its await, to its response
Resume(h) ==
    /\ handlers[h].pc = "returned"
    /\ handlers' = RemoveAt(handlers, h)
    /\ LET q == handlers[h]
       IN  IF q.result.ok
           THEN /\ cache' = CacheAfter(q)
                /\ sent' = [q EXCEPT
                       !.pc = "done",
                       !.trace = @ \o <<IF q.kind \in Reads THEN "set_cache"
                                        ELSE "clear_cache_pattern">>,
                       !.response = Response(200,
                                             IF q.kind \in Reads THEN "False" ELSE "absent",
                                             q.result.data)]
           ELSE /\ cache' = cache
                /\ sent' = [q EXCEPT !.pc = "done",
                                     !.response = Response(500, "absent", PyNone)]
    /\ UNCHANGED <<batchVars, treeVars, now, vika_client, config, rate_limiter, checks, keyVars, cacheVars,
                   received, upstream>>

ViewIds == {PyNone}

Next ==
    \/ SecondPasses
    \/ \E qps \in 1..MaxQuota : set_config(qps)
    \/ \E qps \in 1..MaxQuota : set_config_raises(qps)
    \/ \E datasheet_id \in Sheets :
          create_records(datasheet_id, S_default)
    \/ \E datasheet_id \in Sheets, view_id \in ViewIds :
          get_records(datasheet_id, view_id, S_default)
    \/ \E datasheet_id \in Sheets, record_id \in Records :
          get_record(datasheet_id, record_id, S_default)
    \/ \E datasheet_id \in Sheets, record_id \in Records :
          update_record(datasheet_id, record_id, S_default)
    \/ \E datasheet_id \in Sheets, record_id \in Records :
          delete_record(datasheet_id, record_id, S_default)
    \/ \E h \in DOMAIN handlers : UpstreamAnswers(h)
    \/ \E h \in DOMAIN handlers : UpstreamFails(h)
    \/ \E h \in DOMAIN handlers : Resume(h)

Spec == Init /\ [][Next]_vars

(***************************************************************************)
(* POST /batch                                                             *)
(*                                                                         *)
(* The handler walks the operations in order and waits for the platform    *)
(* at each operation it can send; an operation of an unknown type or with  *)
(* a key missing in its data gets its result without a wait.  After the    *)
(* last operation it clears the cache and responds, in one step.           *)
(***************************************************************************)
SupportedTypes == {"create_record", "update_record", "delete_record"}
OpTypes == SupportedTypes \cup {"archive_record"}

\* The keys an operation's data may carry: none, or those of every type
OpDatas == {{}, {"datasheet_id", "records", "record_ids"}}

\* The keys the branch of a type reads from op_data
NeededKeys(type) ==
    IF type = "delete_record" THEN {"datasheet_id", "record_ids"}
                              ELSE {"datasheet_id", "records"}

\* The operations of a body; the data of an operation of an unknown type is not read
BatchOps == {op \in [type : OpTypes, data : OpDatas] : op.type \in SupportedTypes \/ op.data = {}}

RECURSIVE SeqsUpTo(_, _)
SeqsUpTo(S, n) ==
    IF n = 0 THEN {<<>>}
    ELSE LET shorter == SeqsUpTo(S, n - 1)
         IN  shorter \cup {Append(q, x) : q \in {r \in shorter : Len(r) = n - 1}, x \in S}

\* The bodies a POST /batch may carry
Batches == SeqsUpTo(BatchOps, MaxOps)

\* The call the branch of a type sends to the platform, as the record handlers name it
SubRequest(op) ==
    [kind |-> CASE op.type = "create_record" -> "create_records"
                [] op.type = "update_record" -> "update_record"
                [] op.type = "delete_record" -> "delete_record",
     datasheet_id |-> S_X, record_id |-> S_R, view_id |-> PyNone]

\* results.append({'success': False, 'error': ...}) and on to the next operation,
\* when a failure ends the loop instead
ItemFailureAborts(b, error) ==
    [b EXCEPT !.results = Append(@, [success |-> FALSE, data |-> PyNone, error |-> error]),
              !.i = Len(b.operations) + 1]

\* results.append({'success': False, 'error': ...}), and on to the next operation
ItemFailure(b, error) ==
    [b EXCEPT !.results = Append(@, [success |-> FALSE, data |-> PyNone, error |-> error]),
              !.i = @ + 1]

\* results.append({'success': True, 'data': ...}), and on to the next operation
ItemSuccess(b, data) ==
    [b EXCEPT !.results = Append(@, [success |-> TRUE, data |-> data, error |-> "none"]),
              !.i = @ + 1]

\* The loop runs from the top of an iteration to its next await or to its end
RECURSIVE RunBatch(_)
RunBatch(b) ==
    IF b.i > Len(b.operations)
    THEN [b EXCEPT !.pc = "finished"]
    ELSE LET op == b.operations[b.i]
         IN  IF op.type \notin SupportedTypes
             THEN RunBatch(ItemFailure(b, "unsupported type"))
             ELSE IF ~(NeededKeys(op.type) \subseteq op.data)
             THEN RunBatch(ItemFailure(b, "KeyError"))
             ELSE [b EXCEPT !.pc = "awaiting op", !.calls = Append(@, b.i)]

\* cache.clear(), kept only after a batch without a failure
BatchCacheAfterOnSuccess(c, b) ==
    IF \A k \in 1..Len(b.results) : b.results[k].success THEN EmptyDict ELSE c

\* cache.clear()
BatchCacheAfter(c, b) == EmptyDict

\* The newest version of the list of a sheet that the successful operations wrote
WrittenBy(b, sh) ==
    LET versions == {b.results[k].data.version : k \in
                        {j \in 1..Len(b.results) : b.results[j].success /\ sh = S_X}}
    IN  IF versions = {} THEN 0 ELSE CHOOSE v \in versions : \A w \in versions : w <= v

\* The response of a batch whose loop has ended
BatchResponse(b) ==
    [b EXCEPT !.pc = "done", !.cleared = Cardinality(DOMAIN cache),
              !.trace = @ \o <<"cache.clear">>,
              !.response = Response(200, "absent", [t |-> "results", items |-> b.results])]

\* The handler either waits for the platform (at position h among the waiting
\* handlers, or as a new one) or clears the cache and responds
BatchGoesOn(b, waiting) ==
    IF b.pc = "finished"
    THEN /\ cache' = BatchCacheAfter(cache, b)
         /\ handlers' = waiting
         /\ sent' = BatchResponse(b)
         /\ batch_written' = [sh \in Sheets |->
                                 IF WrittenBy(b, sh) > batch_written[sh]
                                 THEN WrittenBy(b, sh) ELSE batch_written[sh]]
    ELSE /\ cache' = cache
         /\ handlers' = Append(waiting, b)
         /\ sent' = NoCall
         /\ batch_written' = batch_written

\* The request arrives: the dependencies, then the loop up to its first await
batch_operations(operations, operation) ==
    /\ received < MaxRequests
    /\ ~batch_body.sent
    /\ batch_body' = [batch_body EXCEPT !.sent = TRUE]
    /\ received' = received + 1
    /\ LET d == Depends(vika_client, rate_limiter, config, operation, now)
           b == [made |-> TRUE, kind |-> "batch", datasheet_id |-> S_X, record_id |-> S_R,
                 view_id |-> PyNone, operation |-> operation, cache_key |-> <<>>,
                 admission |-> d.admission, quota |-> d.quota, pc |-> "running",
                 result |-> NoCall, response |-> NoCall, trace |-> d.trace,
                 operations |-> operations, i |-> 1, results |-> <<>>, calls |-> <<>>,
                 cleared |-> 0]
       IN  /\ rate_limiter' = d.rate_limiter
           /\ IF ~d.ok
              THEN /\ cache' = cache
                   /\ handlers' = handlers
                   /\ batch_written' = batch_written
                   /\ sent' = [b EXCEPT !.pc = "done",
                                        !.response = Response(d.status, "absent", PyNone)]
              ELSE BatchGoesOn(RunBatch(b), handlers)
    /\ UNCHANGED <<treeVars, now, vika_client, config, checks, keyVars, cacheVars, upstream>>

\* The platform applies the call of the operation the batch waits for
BatchOpAnswers(h) ==
    /\ handlers[h].pc = "awaiting op"
    /\ LET q == SubRequest(handlers[h].operations[handlers[h].i])
       IN  /\ upstream' = UpstreamAfter(q)
           /\ handlers' = [handlers EXCEPT
                               ![h].pc = "op returned",
                               ![h].result = [made |-> TRUE, ok |-> TRUE,
                                              data |-> UpstreamData(q)]]
    /\ sent' = NoCall
    /\ UNCHANGED <<treeVars, batchVars, now, vika_client, config, cache, rate_limiter, checks,
                   keyVars, cacheVars, received>>

\* The call of the operation the batch waits for raises
BatchOpFails(h) ==
    /\ handlers[h].pc = "awaiting op"
    /\ handlers' = [handlers EXCEPT
                        ![h].pc = "op returned",
                        ![h].result = [made |-> TRUE, ok |-> FALSE, data |-> PyNone]]
    /\ sent' = NoCall
    /\ UNCHANGED <<treeVars, batchVars, now, vika_client, config, cache, rate_limiter, checks,
                   keyVars, cacheVars, received, upstream>>

\* The batch goes on after its await: the result of the operation, then the loop
BatchResume(h) ==
    /\ handlers[h].pc = "op returned"
    /\ LET b == handlers[h]
           recorded == IF b.result.ok THEN ItemSuccess(b, b.result.data)
                                      ELSE ItemFailure(b, "upstream error")
       IN  BatchGoesOn(RunBatch([recorded EXCEPT !.result = NoCall]), RemoveAt(handlers, h))
    /\ UNCHANGED <<treeVars, batch_body, now, vika_client, config, rate_limiter, checks, keyVars,
                   cacheVars, received, upstream>>

\* The service is configured with the default quota and the body of the batch is
\* drawn when the run starts; the reads of the run are answered by the platform
InitBatch ==
    /\ now = 0
    /\ vika_client = "Vika"
    /\ config = VikaConfig(DefaultQps)
    /\ cache = EmptyDict
    /\ rate_limiter = EmptyDict
    /\ key_call = NoCall
    /\ key_result = NoCall
    /\ checks = <<>>
    /\ cache_call = NoCall
    /\ sets = EmptyDict
    /\ handlers = <<>>
    /\ sent = NoCall
    /\ received = 0
    /\ upstream = UpstreamAtStart
    /\ space = EmptySpace
    /\ traversal = NotStarted
    /\ batch_written = NothingWritten
    /\ batch_body \in [sent : {FALSE}, operations : Batches]

NextBatch ==
    \/ SecondPasses
    \/ batch_operations(batch_body.operations, S_default)
    \/ get_records(S_X, PyNone, S_default)
    \/ \E h \in DOMAIN handlers : UpstreamAnswers(h)
    \/ \E h \in DOMAIN handlers : Resume(h)
    \/ \E h \in DOMAIN handlers : BatchOpAnswers(h)
    \/ \E h \in DOMAIN handlers : BatchOpFails(h)
    \/ \E h \in DOMAIN handlers : BatchResume(h)

SpecBatch == InitBatch /\ [][NextBatch]_vars

(***************************************************************************)
(* GET /spaces/{space_id}/configuration                                    *)
(*                                                                         *)
(* The handler waits for the space information and the datasheet list      *)
(* together, then for the views and the fields of each datasheet listed,   *)
(* one datasheet after the other, and stores and returns the whole.        *)
(***************************************************************************)
MaxAgeSpaceConfig == 1800

S_space_config == <<"s", "p", "a", "c", "e", "_", "c", "o", "n", "f", "i", "g">>

\* get_cache_key("space_config", space_id=space_id)
SpaceConfigKey(space_id) ==
    get_cache_key(S_space_config, << <<S_space_id, PyStr(space_id)>> >>)

\* The lists space.datasheets.alist() may return
Listings ==
    {<<>>} \cup {<<sh>> : sh \in Sheets}
           \cup {<<sh, other>> : <<sh, other>> \in {p \in Sheets \X Sheets : p[1] # p[2]}}

\* What datasheet.views.aall() and datasheet.fields.aall() return under 'views' and 'fields'
ViewsOf(datasheet_id) == << <<"view of", datasheet_id>> >>
FieldsOf(datasheet_id) == << <<"field of", datasheet_id>> >>

\* The entry of a datasheet when a fetch fails, if only what failed were left empty
SheetEntryKeepsPartial(datasheet_id, views_ok, fields_ok) ==
    [id |-> datasheet_id,
     views |-> IF views_ok THEN ViewsOf(datasheet_id) ELSE <<>>,
     fields |-> IF fields_ok THEN FieldsOf(datasheet_id) ELSE <<>>]

\* The entry appended for a datasheet: by the try branch when asyncio.gather
\* returned, by the except branch when it raised
SheetEntry(datasheet_id, views_ok, fields_ok) ==
    IF views_ok /\ fields_ok
    THEN [id |-> datasheet_id, views |-> ViewsOf(datasheet_id), fields |-> FieldsOf(datasheet_id)]
    ELSE [id |-> datasheet_id, views |-> <<>>, fields |-> <<>>]

\* The request arrives: the dependencies, the cache lookup, then the first gather
get_space_configuration(space_id, operation) ==
    /\ received < MaxRequests
    /\ received' = received + 1
    /\ LET d == Depends(vika_client, rate_limiter, config, operation, now)
           h == [made |-> TRUE, kind |-> "get_space_configuration", datasheet_id |-> space_id,
                 record_id |-> <<>>, view_id |-> PyNone, operation |-> operation,
                 cache_key |-> SpaceConfigKey(space_id), admission |-> d.admission,
                 quota |-> d.quota, pc |-> "done", result |-> NoCall, response |-> NoCall,
                 trace |-> d.trace, listing |-> <<>>, outcomes |-> <<>>, details |-> <<>>,
                 tasks |-> <<>>]
           g == get_from_cache(cache, h.cache_key, MaxAgeSpaceConfig, now)
       IN  /\ rate_limiter' = d.rate_limiter
           /\ IF ~d.ok
              THEN /\ cache' = cache
                   /\ handlers' = handlers
                   /\ sent' = [h EXCEPT !.response = Response(d.status, "absent", PyNone)]
              ELSE IF g.result # PyNone
              THEN /\ cache' = g.cache
                   /\ handlers' = handlers
                   /\ sent' = [h EXCEPT !.trace = @ \o <<"get_from_cache">>,
                                        !.response = Response(200, "True", g.result)]
              ELSE /\ cache' = g.cache
                   /\ handlers' = Append(handlers,
                          [h EXCEPT !.trace = @ \o <<"get_from_cache", "upstream call">>,
                                    !.pc = "awaiting space"])
                   /\ sent' = NoCall
    /\ UNCHANGED <<treeVars, batchVars, now, vika_client, config, checks, keyVars, cacheVars,
                   upstream>>

\* The handler waits for the details of its next datasheet, or stores and returns
\* the configuration when every datasheet listed has its entry
SpaceConfigGoesOn(q, waiting) ==
    IF Len(q.details) < Len(q.listing)
    THEN /\ cache' = cache
         /\ handlers' = Append(waiting, [q EXCEPT !.pc = "awaiting sheet"])
         /\ sent' = NoCall
    ELSE LET result == [t |-> "configuration", space |-> q.datasheet_id,
                        datasheets |-> q.details]
         IN  /\ cache' = set_cache(cache, q.cache_key, result, now)
             /\ handlers' = waiting
             /\ sent' = [q EXCEPT !.pc = "done", !.trace = @ \o <<"set_cache">>,
                                  !.result = [made |-> TRUE, ok |-> TRUE, data |-> result],
                                  !.response = Response(200, "False", result)]

\* The first gather returns the space information and the datasheet list
SpaceAnswers(h, listing) ==
    /\ handlers[h].pc = "awaiting space"
    /\ SpaceConfigGoesOn([handlers[h] EXCEPT !.listing = listing], RemoveAt(handlers, h))
    /\ UNCHANGED <<treeVars, batchVars, now, vika_client, config, rate_limiter, checks, keyVars,
                   cacheVars, received, upstream>>

\* The first gather raises: the request fails
SpaceFails(h) ==
    /\ handlers[h].pc = "awaiting space"
    /\ cache' = cache
    /\ handlers' = RemoveAt(handlers, h)
    /\ sent' = [handlers[h] EXCEPT
                    !.pc = "done",
                    !.result = [made |-> TRUE, ok |-> FALSE, data |-> PyNone],
                    !.response = Response(500, "absent", PyNone)]
    /\ UNCHANGED <<treeVars, batchVars, now, vika_client, config, rate_limiter, checks, keyVars,
                   cacheVars, received, upstream>>

\* The gather of the views and the fields of the next datasheet returns or raises
SheetDetails(h, views_ok, fields_ok) ==
    /\ handlers[h].pc = "awaiting sheet"
    /\ LET q == handlers[h]
           ds == q.listing[Len(q.details) + 1]
       IN  SpaceConfigGoesOn(
               [q EXCEPT !.details = Append(@, SheetEntry(ds, views_ok, fields_ok)),
                         !.outcomes = Append(@, [views_ok |-> views_ok, fields_ok |-> fields_ok])],
               RemoveAt(handlers, h))
    /\ UNCHANGED <<treeVars, batchVars, now, vika_client, config, rate_limiter, checks, keyVars,
                   cacheVars, received, upstream>>

\* The service is configured with the default quota when the run starts
InitConfigured ==
    /\ now = 0
    /\ vika_client = "Vika"
    /\ config = VikaConfig(DefaultQps)
    /\ cache = EmptyDict
    /\ rate_limiter = EmptyDict
    /\ key_call = NoCall
    /\ key_result = NoCall
    /\ checks = <<>>
    /\ cache_call = NoCall
    /\ sets = EmptyDict
    /\ handlers = <<>>
    /\ sent = NoCall
    /\ received = 0
    /\ upstream = UpstreamAtStart
    /\ space = EmptySpace
    /\ traversal = NotStarted
    /\ batch_written = NothingWritten
    /\ batch_body = NoBatch

NextSpaceConfig ==
    \/ SecondPasses
    \/ get_space_configuration(S_spc, S_default)
    \/ \E h \in DOMAIN handlers, listing \in Listings : SpaceAnswers(h, listing)
    \/ \E h \in DOMAIN handlers : SpaceFails(h)
    \/ \E h \in DOMAIN handlers, views_ok, fields_ok \in BOOLEAN :
          SheetDetails(h, views_ok, fields_ok)

SpecSpaceConfig == InitConfigured /\ [][NextSpaceConfig]_vars

(***************************************************************************)
(* GET /spaces/{space_id}/configuration, coroutine by coroutine            *)
(*                                                                         *)
(* datasheet.views.aall() and datasheet.fields.aall() called without await *)
(* give coroutine objects: nothing of them runs until asyncio.gather wraps *)
(* them in tasks.  asyncio.gather raises in its awaiter as soon as one of  *)
(* its awaitables raises, and leaves the others running.                   *)
(***************************************************************************)
Parts == {"views", "fields"}

OtherPart(part) == IF part = "views" THEN "fields" ELSE "views"

\* datasheet_tasks after the loop that builds it: two coroutine objects for each
\* datasheet listed, none of them started
datasheet_tasks(listing) ==
    [k \in 1..Len(listing) |-> [views |-> "created", fields |-> "created"]]

\* asyncio.gather(views_task, fields_task) for the next datasheet of the second
\* loop, if one is left: its two coroutines are scheduled
StartGather(q) ==
    IF Len(q.details) < Len(q.listing)
    THEN [q EXCEPT !.tasks[Len(q.details) + 1] = [views |-> "running", fields |-> "running"]]
    ELSE q

\* The first gather returns: the coroutine objects are created for every datasheet
\* listed, then the second loop awaits the gather of the first datasheet
DatasheetsListed(h, listing) ==
    /\ handlers[h].pc = "awaiting space"
    /\ SpaceConfigGoesOn(
           StartGather([handlers[h] EXCEPT !.listing = listing,
                                           !.tasks = datasheet_tasks(listing)]),
           RemoveAt(handlers, h))
    /\ UNCHANGED <<treeVars, batchVars, now, vika_client, config, rate_limiter, checks, keyVars,
                   cacheVars, received, upstream>>

\* A coroutine of the gather the handler awaits ends.  When it raised, the gather
\* raises at once and the except branch appends the empty entry; when it returned
\* and the other one has returned, the gather returns and the entry is appended;
\* when it returned and the other one still runs, the handler keeps waiting.
FetchEnds(h, part, ok) ==
    /\ handlers[h].pc = "awaiting sheet"
    /\ LET q == handlers[h]
           k == Len(q.details) + 1
           ds == q.listing[k]
           ended == [q EXCEPT !.tasks[k][part] = IF ok THEN "done" ELSE "failed"]
           other == q.tasks[k][OtherPart(part)]
           entered(all_ok) ==
               [ended EXCEPT !.details = Append(@, SheetEntry(ds, all_ok, all_ok)),
                             !.outcomes = Append(@, [views_ok |-> ended.tasks[k].views = "done",
                                                     fields_ok |-> ended.tasks[k].fields = "done"])]
       IN  /\ q.tasks[k][part] = "running"
           /\ IF ~ok
              THEN SpaceConfigGoesOn(StartGather(entered(FALSE)), RemoveAt(handlers, h))
              ELSE IF other = "done"
              THEN SpaceConfigGoesOn(StartGather(entered(TRUE)), RemoveAt(handlers, h))
              ELSE /\ cache' = cache
                   /\ handlers' = [handlers EXCEPT ![h] = ended]
                   /\ sent' = NoCall
    /\ UNCHANGED <<treeVars, batchVars, now, vika_client, config, rate_limiter, checks, keyVars,
                   cacheVars, received, upstream>>

\* A coroutine a gather that raised left running ends, while the handler is at a
\* later datasheet
AbandonedFetchEnds(h, k, part, ok) ==
    /\ handlers[h].pc = "awaiting sheet"
    /\ k \in 1..Len(handlers[h].details)
    /\ handlers[h].tasks[k][part] = "running"
    /\ cache' = cache
    /\ handlers' = [handlers EXCEPT ![h].tasks[k][part] = IF ok THEN "done" ELSE "failed"]
    /\ sent' = NoCall
    /\ UNCHANGED <<treeVars, batchVars, now, vika_client, config, rate_limiter, checks, keyVars,
                   cacheVars, received, upstream>>

NextFanOut ==
    \/ get_space_configuration(S_spc, S_default)
    \/ \E h \in DOMAIN handlers, listing \in Listings : DatasheetsListed(h, listing)
    \/ \E h \in DOMAIN handlers : SpaceFails(h)
    \/ \E h \in DOMAIN handlers, part \in Parts, ok \in BOOLEAN : FetchEnds(h, part, ok)
    \/ \E h \in DOMAIN handlers, part \in Parts, ok \in BOOLEAN :
          \E k \in 1..Len(handlers[h].listing) : AbandonedFetchEnds(h, k, part, ok)

SpecFanOut == InitConfigured /\ [][NextFanOut]_vars

(***************************************************************************)
(* _fetch_children_recursively: the recursive folder-tree fetch            *)
(*                                                                         *)
(* A call is a stack of frames, one for each nested call, the innermost    *)
(* last.  A step runs the coroutine from one await to the next: from the   *)
(* call to the first sleep or detail fetch, from the end of a sleep to the *)
(* detail fetch, from the answer of a detail fetch to the next await or to *)
(* the return of the outermost call.                                       *)
(***************************************************************************)
\* The frame of a call on the list nodes, at the top of its loop
Frame(nodes) == [nodes |-> nodes, i |-> 1, result_list |-> <<>>, node_dict |-> PyNone]

\* node_dict as it is built for a node, children preset to []
NodeDict(node) ==
    [id |-> node.id, name |-> node.name, type |-> node.type, icon |-> node.icon,
     children |-> <<>>]

\* The test before the recursion, when it never finds children
children_found_never(details) == FALSE

\* hasattr(folder_details, 'children') and folder_details.children
children_found(details) == details.children # <<>>

\* result_list.append(node_dict), and the loop moves to the next node
AppendNode(frame, node_dict) ==
    [frame EXCEPT !.result_list = Append(@, node_dict), !.i = @ + 1, !.node_dict = PyNone]

\* The innermost frame of the call
Innermost(tr) == tr.stack[Len(tr.stack)]

\* The call with its innermost frame replaced
WithInnermost(tr, frame) == [tr EXCEPT !.stack = [@ EXCEPT ![Len(@)] = frame]]

\* The node the innermost frame is working on
CurrentNode(tr) == Innermost(tr).nodes[Innermost(tr).i]

\* space.nodes.aget(node.id), if the request left twice
IssueDetailFetchTwice(tr, t) ==
    [tr EXCEPT !.pc = "awaiting details",
               !.fetches = @ \o <<CurrentNode(tr).id, CurrentNode(tr).id>>,
               !.fetched_at = t]

\* space.nodes.aget(node.id) is called: the request leaves, the coroutine waits
IssueDetailFetch(tr, t) ==
    [tr EXCEPT !.pc = "awaiting details", !.fetches = Append(@, CurrentNode(tr).id),
               !.fetched_at = t]

\* The coroutine runs from the top of the innermost loop to its next await, or to
\* the return of the outermost call
RECURSIVE Run(_, _, _)
RECURSIVE RunOn(_, _, _)
Run(tr, cfg, t) ==
    LET depth == Len(tr.stack)
        frame == Innermost(tr)
    IN  IF frame.i > Len(frame.nodes)
        THEN \* return result_list
             IF depth = 1
             THEN [tr EXCEPT !.pc = "returned", !.stack = <<>>, !.result = frame.result_list]
             ELSE \* in the caller: node_dict['children'] = children_dicts, then the append
                  LET caller == tr.stack[depth - 1]
                      node_dict == [caller.node_dict EXCEPT !.children = frame.result_list]
                  IN  RunOn([tr EXCEPT !.stack = Append(SubSeq(@, 1, depth - 2),
                                                      AppendNode(caller, node_dict))],
                          cfg, t)
        ELSE LET node == frame.nodes[frame.i]
             IN  IF node.type = "Folder"
                 THEN LET qps_limit == ConfigGet(cfg, "rate_limit_qps", DefaultQps)
                          held == WithInnermost(tr, [frame EXCEPT !.node_dict = NodeDict(node)])
                      IN  IF qps_limit > 0
                          THEN \* await asyncio.sleep(1.0 / qps_limit)
                               [held EXCEPT !.pc = "sleeping", !.slept_from = t,
                                            !.qps_limit = qps_limit]
                          ELSE IssueDetailFetch(held, t)
                 ELSE RunOn(WithInnermost(tr, AppendNode(frame, NodeDict(node))), cfg, t)

\* Run on the value of tr
RunOn(tr, cfg, t) == CHOOSE r \in {Run(held, cfg, t) : held \in {tr}} : TRUE

\* _fetch_children_recursively(space, nodes) is called and runs to its first await
fetch_children_recursively(nodes, cfg, t) ==
    RunOn([pc |-> "running", stack |-> <<Frame(nodes)>>, result |-> <<>>, fetches |-> <<>>,
         fetched_at |-> 0, slept_from |-> 0, qps_limit |-> 0], cfg, t)

\* asyncio.sleep(delay), if it returned at once
SleepIsOverAtOnce(tr, t) == TRUE

\* asyncio.sleep(delay) is over once delay = 1.0 / qps_limit seconds have passed
SleepIsOver(tr, t) == (t - tr.slept_from) * tr.qps_limit >= TicksPerSecond

\* The coroutine wakes from the sleep and calls space.nodes.aget(node.id)
AfterSleep(tr, t) == IssueDetailFetch(tr, t)

\* space.nodes.aget answers: the recursion into the children found, or the append
AfterDetails(tr, details, cfg, t) ==
    IF children_found(details)
    THEN RunOn([tr EXCEPT !.pc = "running", !.stack = Append(@, Frame(details.children))], cfg, t)
    ELSE LET frame == Innermost(tr)
         IN  RunOn(WithInnermost([tr EXCEPT !.pc = "running"], AppendNode(frame, frame.node_dict)),
                 cfg, t)

\* The failure swallowed: the outermost call returns what it has built so far
AfterDetailsFailureSwallowed(tr) ==
    [tr EXCEPT !.pc = "returned", !.stack = <<>>, !.result = tr.stack[1].result_list]

\* space.nodes.aget raises: no frame catches, the outermost call raises
AfterDetailsFailure(tr) == [tr EXCEPT !.pc = "raised", !.stack = <<>>]

\* The space and the configuration the fetch runs with are drawn when the run starts
InitTree ==
    /\ now = 0
    /\ vika_client = "Vika"
    /\ config \in {VikaConfig(qps) : qps \in 0..MaxQuota}
    /\ cache = EmptyDict
    /\ rate_limiter = EmptyDict
    /\ key_call = NoCall
    /\ key_result = NoCall
    /\ checks = <<>>
    /\ cache_call = NoCall
    /\ sets = EmptyDict
    /\ handlers = <<>>
    /\ sent = NoCall
    /\ received = 0
    /\ upstream = UpstreamAtStart
    /\ space \in Spaces
    /\ traversal = NotStarted
    /\ batch_written = NothingWritten
    /\ batch_body = NoBatch

\* The fetch is called on the top-level nodes of the space
FetchTreeCall ==
    /\ traversal.pc = "not started"
    /\ traversal' = fetch_children_recursively(top_level_nodes(space), config, now)
    /\ UNCHANGED <<batchVars, now, vika_client, config, cache, rate_limiter, checks, keyVars, cacheVars,
                   handlerVars, space>>

\* The sleep before a detail fetch ends
SleepEnds ==
    /\ traversal.pc = "sleeping"
    /\ SleepIsOver(traversal, now)
    /\ traversal' = AfterSleep(traversal, now)
    /\ UNCHANGED <<batchVars, now, vika_client, config, cache, rate_limiter, checks, keyVars, cacheVars,
                   handlerVars, space>>

\* The platform answers the detail fetch
DetailsArrive ==
    /\ traversal.pc = "awaiting details"
    /\ traversal' = AfterDetails(traversal, folder_details(space, CurrentNode(traversal).id),
                                 config, now)
    /\ UNCHANGED <<batchVars, now, vika_client, config, cache, rate_limiter, checks, keyVars, cacheVars,
                   handlerVars, space>>

\* The detail fetch fails
DetailsFail ==
    /\ traversal.pc = "awaiting details"
    /\ traversal' = AfterDetailsFailure(traversal)
    /\ UNCHANGED <<batchVars, now, vika_client, config, cache, rate_limiter, checks, keyVars, cacheVars,
                   handlerVars, space>>

NextTree ==
    \/ Tick
    \/ FetchTreeCall
    \/ SleepEnds
    \/ DetailsArrive
    \/ DetailsFail

SpecTree == InitTree /\ [][NextTree]_vars

\* The clock moves on while the coroutine sleeps, for as long as the sleep lasts
SleepTick ==
    /\ traversal.pc = "sleeping"
    /\ ~SleepIsOver(traversal, now)
    /\ now' = now + 1
    /\ UNCHANGED <<batchVars, treeVars, vika_client, config, cache, rate_limiter, checks,
                   keyVars, cacheVars, handlerVars>>

\* The fetch with a platform that answers every call
NextTreeAnswering ==
    \/ FetchTreeCall
    \/ SleepTick
    \/ SleepEnds
    \/ DetailsArrive

\* The event loop resumes a coroutine whose await is over, time passes during a
\* sleep, and the platform answers every detail fetch
SpecTreeAnswering ==
    /\ InitTree
    /\ [][NextTreeAnswering]_vars
    /\ WF_vars(SleepTick)
    /\ WF_vars(SleepEnds)
    /\ WF_vars(DetailsArrive)

(***************************************************************************)
(* GET /spaces/{space_id}/datasheets: the handler around the tree fetch    *)
(*                                                                         *)
(* One request for the tree is followed at a time: the handler waits for   *)
(* the top-level nodes, then runs the fetch, and stores and returns the    *)
(* tree in the step in which the fetch returns.                            *)
(***************************************************************************)
MaxAgeTree == 3600

S_full_nodes_tree ==
    <<"f", "u", "l", "l", "_", "n", "o", "d", "e", "s", "_", "t", "r", "e", "e">>

\* get_cache_key("full_nodes_tree", space_id=space_id)
TreeKey(space_id) == get_cache_key(S_full_nodes_tree, << <<S_space_id, PyStr(space_id)>> >>)

\* The request for the tree, as a handler
TreeRequest(space_id, operation, d) ==
    [made |-> TRUE, kind |-> "get_datasheets", datasheet_id |-> space_id,
     record_id |-> <<>>, view_id |-> PyNone, operation |-> operation,
     cache_key |-> TreeKey(space_id), admission |-> d.admission, quota |-> d.quota,
     pc |-> "done", result |-> NoCall, response |-> NoCall, trace |-> d.trace]

\* The request arrives: the dependencies, the cache lookup, then space.nodes.aall()
get_datasheets(space_id, operation) ==
    /\ received < MaxTreeRequests
    /\ handlers = <<>>
    /\ received' = received + 1
    /\ LET d == Depends(vika_client, rate_limiter, config, operation, now)
           h == TreeRequest(space_id, operation, d)
           g == get_from_cache(cache, h.cache_key, MaxAgeTree, now)
       IN  /\ rate_limiter' = d.rate_limiter
           /\ IF ~d.ok
              THEN /\ cache' = cache
                   /\ handlers' = handlers
                   /\ traversal' = traversal
                   /\ sent' = [h EXCEPT !.response = Response(d.status, "absent", PyNone)]
              ELSE IF g.result # PyNone
              THEN /\ cache' = g.cache
                   /\ handlers' = handlers
                   /\ traversal' = traversal
                   /\ sent' = [h EXCEPT !.trace = @ \o <<"get_from_cache">>,
                                        !.response = Response(200, "True", g.result)]
              ELSE /\ cache' = g.cache
                   /\ handlers' = <<[h EXCEPT !.trace = @ \o <<"get_from_cache", "upstream call">>,
                                              !.pc = "awaiting top level"]>>
                   /\ traversal' = NotStarted
                   /\ sent' = NoCall
    /\ UNCHANGED <<batchVars, now, vika_client, config, checks, keyVars, cacheVars, upstream, space>>

\* The list the fetch returned, as the value the handler stores and returns
TreeData(result_data) == [t |-> "tree", nodes |-> result_data]

\* The handler goes on with the fetch at its next await, or past its end: the tree is
\* stored and returned, or the failure of the fetch becomes the failure of the request
Conclude(tr) ==
    /\ traversal' = tr
    /\ LET h == handlers[1]
       IN  CASE tr.pc = "returned" ->
                    /\ cache' = set_cache(cache, h.cache_key, TreeData(tr.result), now)
                    /\ handlers' = <<>>
                    /\ sent' = [h EXCEPT !.pc = "done", !.trace = @ \o <<"set_cache">>,
                                         !.result = [made |-> TRUE, ok |-> TRUE,
                                                     data |-> TreeData(tr.result)],
                                         !.response = Response(200, "False", TreeData(tr.result))]
             [] tr.pc = "raised" ->
                    /\ cache' = cache
                    /\ handlers' = <<>>
                    /\ sent' = [h EXCEPT !.pc = "done",
                                         !.result = [made |-> TRUE, ok |-> FALSE, data |-> PyNone],
                                         !.response = Response(500, "absent", PyNone)]
             [] OTHER ->
                    /\ cache' = cache
                    /\ handlers' = <<[h EXCEPT !.pc = "fetching tree"]>>
                    /\ sent' = NoCall
    /\ UNCHANGED <<batchVars, now, vika_client, config, rate_limiter, checks, keyVars, cacheVars,
                   received, upstream, space>>

\* space.nodes.aall() answers: the fetch is called on the top-level nodes
TopLevelNodesArrive ==
    /\ handlers # <<>>
    /\ handlers[1].pc = "awaiting top level"
    /\ Conclude(fetch_children_recursively(top_level_nodes(space), config, now))

\* space.nodes.aall() raises
TopLevelNodesFail ==
    /\ handlers # <<>>
    /\ handlers[1].pc = "awaiting top level"
    /\ Conclude([pc |-> "raised", stack |-> <<>>, result |-> <<>>, fetches |-> <<>>,
                 fetched_at |-> 0, slept_from |-> 0, qps_limit |-> 0])

\* The sleep before a detail fetch of the handler's fetch ends
TreeSleepEnds ==
    /\ handlers # <<>>
    /\ handlers[1].pc = "fetching tree"
    /\ SleepEnds

\* The platform answers a detail fetch of the handler's fetch
TreeDetailsArrive ==
    /\ handlers # <<>>
    /\ handlers[1].pc = "fetching tree"
    /\ traversal.pc = "awaiting details"
    /\ Conclude(AfterDetails(traversal, folder_details(space, CurrentNode(traversal).id),
                             config, now))

\* A detail fetch of the handler's fetch fails
TreeDetailsFail ==
    /\ handlers # <<>>
    /\ handlers[1].pc = "fetching tree"
    /\ traversal.pc = "awaiting details"
    /\ Conclude(AfterDetailsFailure(traversal))

\* The clock is followed while the fetch sleeps, up to the end of the sleep
SleepGoesOn == traversal.pc = "sleeping" /\ ~SleepIsOver(traversal, now) /\ Tick

NextDatasheets ==
    \/ SleepGoesOn
    \/ get_datasheets(S_spc, S_default)
    \/ TopLevelNodesArrive
    \/ TopLevelNodesFail
    \/ TreeSleepEnds
    \/ TreeDetailsArrive
    \/ TreeDetailsFail

SpecDatasheets == InitTree /\ [][NextDatasheets]_vars

(***************************************************************************)
(* GET /spaces/{space_id}/datasheets, several requests together            *)
(*                                                                         *)
(* Each handler holds the fetch it awaits; the handlers interleave at      *)
(* their awaits.  The hierarchies are the ones made of folders only, each  *)
(* list in the order of the ids.                                           *)
(***************************************************************************)
\* The hierarchies of folders whose lists are in the order of the ids
FolderSpaces ==
    {s \in Spaces :
        /\ \A id \in NodeIds : s.type[id] = "Folder"
        /\ \A i, j \in 1..Len(s.top) : i < j => s.top[i] < s.top[j]
        /\ \A id \in NodeIds :
              \A i, j \in 1..Len(s.children[id]) : i < j => s.children[id][i] < s.children[id][j]}

\* The request for the tree, as a handler that holds its fetch and the times at
\* which its detail fetches were started
TreeHandler(space_id, operation, d) ==
    [made |-> TRUE, kind |-> "get_datasheets", datasheet_id |-> space_id,
     record_id |-> <<>>, view_id |-> PyNone, operation |-> operation,
     cache_key |-> TreeKey(space_id), admission |-> d.admission, quota |-> d.quota,
     pc |-> "done", result |-> NoCall, response |-> NoCall, trace |-> d.trace,
     traversal |-> NotStarted, fetch_times |-> <<>>]

\* The number of detail fetches a fetch has started
Started(tr) == IF tr.pc = "not started" THEN 0 ELSE Len(tr.fetches)

\* The request arrives: the dependencies, the cache lookup, then space.nodes.aall()
TreeRequestArrives(space_id, operation) ==
    /\ received < MaxRequests
    /\ received' = received + 1
    /\ LET d == Depends(vika_client, rate_limiter, config, operation, now)
           h == TreeHandler(space_id, operation, d)
           g == get_from_cache(cache, h.cache_key, MaxAgeTree, now)
       IN  /\ rate_limiter' = d.rate_limiter
           /\ IF ~d.ok
              THEN /\ cache' = cache
                   /\ handlers' = handlers
                   /\ sent' = [h EXCEPT !.response = Response(d.status, "absent", PyNone)]
              ELSE IF g.result # PyNone
              THEN /\ cache' = g.cache
                   /\ handlers' = handlers
                   /\ sent' = [h EXCEPT !.trace = @ \o <<"get_from_cache">>,
                                        !.response = Response(200, "True", g.result)]
              ELSE /\ cache' = g.cache
                   /\ handlers' = Append(handlers,
                          [h EXCEPT !.trace = @ \o <<"get_from_cache", "upstream call">>,
                                    !.pc = "awaiting top level"])
                   /\ sent' = NoCall
    /\ UNCHANGED <<batchVars, treeVars, now, vika_client, config, checks, keyVars, cacheVars,
                   upstream>>

\* The fetch of handler h has run to its next await or to its return: a detail
\* fetch it started is logged with the time, and a fetch that returned is stored
\* and answered
TreeGoesOn(h, tr) ==
    /\ LET q == [handlers[h] EXCEPT
                     !.traversal = tr,
                     !.fetch_times = IF Started(tr) > Started(handlers[h].traversal)
                                     THEN Append(@, now) ELSE @]
       IN  IF tr.pc = "returned"
           THEN /\ cache' = set_cache(cache, q.cache_key, TreeData(tr.result), now)
                /\ handlers' = RemoveAt(handlers, h)
                /\ sent' = [q EXCEPT !.pc = "done", !.trace = @ \o <<"set_cache">>,
                                     !.result = [made |-> TRUE, ok |-> TRUE,
                                                 data |-> TreeData(tr.result)],
                                     !.response = Response(200, "False", TreeData(tr.result))]
           ELSE /\ cache' = cache
                /\ handlers' = [handlers EXCEPT ![h] = [q EXCEPT !.pc = "fetching tree"]]
                /\ sent' = NoCall
    /\ UNCHANGED <<batchVars, treeVars, now, vika_client, config, rate_limiter, checks, keyVars,
                   cacheVars, received, upstream>>

\* space.nodes.aall() answers handler h: its fetch is called on the top-level nodes
TopLevelNodesAnswer(h) ==
    /\ handlers[h].pc = "awaiting top level"
    /\ TreeGoesOn(h, fetch_children_recursively(top_level_nodes(space), config, now))

\* The sleep before a detail fetch of handler h ends
TreeSleepOver(h) ==
    /\ handlers[h].pc = "fetching tree"
    /\ handlers[h].traversal.pc = "sleeping"
    /\ SleepIsOver(handlers[h].traversal, now)
    /\ TreeGoesOn(h, AfterSleep(handlers[h].traversal, now))

\* The platform answers the detail fetch of handler h
TreeDetailsAnswer(h) ==
    /\ handlers[h].pc = "fetching tree"
    /\ handlers[h].traversal.pc = "awaiting details"
    /\ TreeGoesOn(h, AfterDetails(handlers[h].traversal,
                                  folder_details(space, CurrentNode(handlers[h].traversal).id),
                                  config, now))

\* The service is configured with a quota above zero, which stays, and the space
\* holds folders
InitTogether ==
    /\ now = 0
    /\ vika_client = "Vika"
    /\ config \in {VikaConfig(qps) : qps \in 1..MaxQuota}
    /\ cache = EmptyDict
    /\ rate_limiter = EmptyDict
    /\ key_call = NoCall
    /\ key_result = NoCall
    /\ checks = <<>>
    /\ cache_call = NoCall
    /\ sets = EmptyDict
    /\ handlers = <<>>
    /\ sent = NoCall
    /\ received = 0
    /\ upstream = UpstreamAtStart
    /\ space \in FolderSpaces
    /\ traversal = NotStarted
    /\ batch_written = NothingWritten
    /\ batch_body = NoBatch

NextTogether ==
    \/ Tick
    \/ TreeRequestArrives(S_spc, S_default)
    \/ \E h \in DOMAIN handlers : TopLevelNodesAnswer(h)
    \/ \E h \in DOMAIN handlers : TreeSleepOver(h)
    \/ \E h \in DOMAIN handlers : TreeDetailsAnswer(h)

SpecTogether == InitTogether /\ [][NextTogether]_vars

(***************************************************************************)
(* Claims about the tree fetcher                                           *)
(***************************************************************************)
\* The TreeNode of a node of the hierarchy: its own fields, and under children the
\* TreeNodes of the nodes its detail record lists, in their order, if it is a folder
RECURSIVE TreeNode(_, _)
TreeNode(s, id) ==
    [id |-> id, name |-> <<"name", id>>, type |-> s.type[id], icon |-> <<"icon", id>>,
     children |-> IF s.type[id] = "Folder"
                  THEN [k \in 1..Len(s.children[id]) |-> TreeNode(s, s.children[id][k])]
                  ELSE <<>>]

\* C10: a tree fetch that returns gives one TreeNode for each input node, in input
\* order, each with children present: [] for a node that is no folder and for a
\* folder whose detail record lists no children, and for a folder with children the
\* trees of exactly those children, in their order, at any depth.
C10_TreeMirrorsHierarchy ==
    traversal.pc = "returned"
        => /\ Len(traversal.result) = Len(space.top)
           /\ traversal.result = [k \in 1..Len(space.top) |-> TreeNode(space, space.top[k])]

\* C10 witness: a fetch has returned on a hierarchy with a folder in a folder, the
\* inner one holding a node, together with a folder that holds nothing and a node
\* that is no folder.
C10_Witness ==
    /\ traversal.pc = "returned"
    /\ \E outer \in NodeIds :
           /\ \E k \in 1..Len(space.top) : space.top[k] = outer
           /\ Len(space.children[outer]) = 2
           /\ \E k \in 1..2 :
                  LET inner == space.children[outer][k]
                  IN  space.type[inner] = "Folder" /\ space.children[inner] # <<>>
    /\ \E id \in NodeIds : space.type[id] = "Folder" /\ space.children[id] = <<>>
    /\ \E id \in NodeIds : space.type[id] = "Datasheet"

\* The tree of the whole space
FullTree == [t |-> "tree", nodes |-> [k \in 1..Len(space.top) |-> TreeNode(space, space.top[k])]]

\* C11: when a folder detail fetch fails during GET /spaces/{id}/datasheets, at any
\* depth, the request fails with an error in that step and the cache is left as it
\* was; a response that carries a tree carries the tree of the whole space, never
\* a part of it.
C11_FailedFetchFailsRequest ==
    /\ [][( traversal.pc = "awaiting details" /\ traversal'.pc = "raised" )
             => /\ sent'.made
                /\ sent'.kind = "get_datasheets"
                /\ sent'.response.status = 500
                /\ sent'.response.data = PyNone
                /\ cache' = cache
                /\ handlers' = <<>>]_vars
    /\ []( ( sent.made /\ sent.kind = "get_datasheets" /\ sent.response.status = 200 )
              => sent.response.data = FullTree )
    /\ [](\A key \in DOMAIN cache : cache[key].data = FullTree)

\* C11 witness: the detail fetch of a folder that lies in another folder has failed,
\* after earlier detail fetches of the request were answered.
C11_Witness ==
    /\ traversal.pc = "raised"
    /\ sent.made
    /\ sent.response.status = 500
    /\ Len(traversal.fetches) >= 2
    /\ \E holder \in NodeIds, k \in 1..MaxNodes :
           /\ k <= Len(space.children[holder])
           /\ space.children[holder][k] = traversal.fetches[Len(traversal.fetches)]

(***************************************************************************)
(* Claims about the record handlers                                        *)
(***************************************************************************)
\* The keys under which GET /records/{datasheet_id} caches the lists of a sheet
ListKeys(datasheet_id) ==
    {get_cache_key(S_records, RecordsKwargs(datasheet_id, view_id)) : view_id \in ViewIds}

\* The key under which GET /records/{datasheet_id}/{record_id} caches a record
RecordKey(datasheet_id, record_id) ==
    get_cache_key(S_record, RecordKwargs(datasheet_id, record_id))

\* The last step sent the response of a write of the given kinds that succeeded upstream
WriteSucceeded(kinds) ==
    sent.made /\ sent.kind \in kinds /\ sent.response.status = 200

\* C1: when POST /records on sheet S has succeeded upstream and responds, no cache
\* entry written by GET /records/{S} is left in the cache, so that the next
\* GET /records/{S} cannot be answered with the list cached before the create.
C1_CreateDropsCachedLists ==
    WriteSucceeded({"create_records"})
        => \A key \in DOMAIN cache : key \notin ListKeys(sent.datasheet_id)

\* C2: when PUT /records or DELETE /records/{S}/{R} has succeeded upstream and
\* responds, the cache holds no entry under the key of record R of sheet S and none
\* under a list key of sheet S.
C2_WriteDropsCachedRecordAndLists ==
    WriteSucceeded({"update_record", "delete_record"})
        => \A key \in DOMAIN cache :
               /\ key # RecordKey(sent.datasheet_id, sent.record_id)
               /\ key \notin ListKeys(sent.datasheet_id)

\* C6: a request the admission check denies is answered at once with status 429
\* carrying the quota in force, not with the generic failure, and it makes no cache
\* read, no upstream call, no cache write and no invalidation.
C6_DenialShortCircuits ==
    /\ [](( sent.made /\ sent.admission = "denied" )
             => /\ sent.response.status = 429
                /\ sent.quota = Quota
                /\ sent.trace = <<"get_vika_client", "rate_limit_check">>)
    /\ [][( sent'.made /\ sent'.admission = "denied" )
             => /\ cache' = cache
                /\ upstream' = upstream
                /\ handlers' = handlers]_vars

\* C6 witness: a read is denied while the cache holds an entry under its key.
C6_Witness ==
    /\ sent.made
    /\ sent.admission = "denied"
    /\ sent.kind \in Reads
    /\ sent.cache_key \in DOMAIN cache

\* C15: as long as no configuration call has succeeded, a request to a handler
\* that needs the platform is answered at once with the error of get_vika_client,
\* no handler waits on the platform, and the cache and the platform are as at the
\* start; once the client is set no step unsets it, a failing configuration call
\* included.
C15_NotReadyUntilConfigured ==
    /\ []( vika_client = "None"
             => /\ handlers = <<>>
                /\ cache = EmptyDict
                /\ upstream = UpstreamAtStart
                /\ ( sent.made /\ sent.kind # "set_config" )
                       => /\ sent.response.status = 500
                          /\ sent.admission = "not checked"
                          /\ sent.trace = <<"get_vika_client">> )
    /\ [][vika_client = "Vika" => vika_client' = "Vika"]_vars

\* C15 witness: a configuration call has failed and a read that follows it is
\* answered with the error of get_vika_client.
C15_Witness ==
    /\ vika_client = "None"
    /\ config # EmptyDict
    /\ sent.made
    /\ sent.kind \in Reads
    /\ sent.response.status = 500

\* The other case of the client's life: a configuration call fails after one has
\* succeeded, and the client stays.
C15_ClientKeptAfterFailure ==
    /\ vika_client = "Vika"
    /\ sent.made
    /\ sent.kind = "set_config"
    /\ sent.response.status = 500

(***************************************************************************)
(* Claims about GET /spaces/{space_id}/configuration                       *)
(***************************************************************************)
\* The last step sent the configuration a request built from the platform's answers
ConfigurationBuilt ==
    sent.made /\ sent.kind = "get_space_configuration" /\ sent.listing # <<>>

\* C14: once the datasheet list has arrived the request succeeds whatever the
\* fetches of views and fields do, and its datasheets are the datasheets listed,
\* in listing order: with views = [] and fields = [] where the fetch of the views
\* or of the fields failed, with the views and fields fetched everywhere else.
C14_FailedSheetDegrades ==
    ConfigurationBuilt
        => LET datasheets == sent.response.data.datasheets
           IN  /\ sent.response.status = 200
               /\ Len(datasheets) = Len(sent.listing)
               /\ \A k \in 1..Len(datasheets) :
                     /\ datasheets[k].id = sent.listing[k]
                     /\ IF sent.outcomes[k].views_ok /\ sent.outcomes[k].fields_ok
                        THEN /\ datasheets[k].views = << <<"view of", sent.listing[k]>> >>
                             /\ datasheets[k].fields = << <<"field of", sent.listing[k]>> >>
                        ELSE /\ datasheets[k].views = <<>>
                             /\ datasheets[k].fields = <<>>

\* C14 witness: a configuration was returned for two datasheets, the fetch of the
\* fields of the first having failed and both fetches of the second answered.
C14_Witness ==
    /\ ConfigurationBuilt
    /\ Len(sent.listing) = 2
    /\ sent.outcomes[1].views_ok
    /\ ~sent.outcomes[1].fields_ok
    /\ sent.outcomes[2].views_ok
    /\ sent.outcomes[2].fields_ok

(***************************************************************************)
(* Claims about POST /batch                                                *)
(***************************************************************************)
\* The last step sent the response of a batch that was admitted
BatchResponded == sent.made /\ sent.kind = "batch" /\ sent.admission = "allowed"

\* The operations of a body that reach the platform: of a known type, with their keys
Sendable(operations) ==
    {k \in 1..Len(operations) :
        /\ operations[k].type \in {"create_record", "update_record", "delete_record"}
        /\ "datasheet_id" \in operations[k].data
        /\ (IF operations[k].type = "delete_record" THEN "record_ids" ELSE "records")
               \in operations[k].data}

\* C12: the response of an admitted POST /batch is a success and carries one result
\* for each operation submitted, in order, each with its own success flag: an
\* operation of an unknown type or with unusable data fails alone, every operation
\* that can be sent is sent whatever happened to the ones before it, and the
\* results flagged as successes are those of the calls the platform applied.
C12_BatchOneResultPerOperation ==
    BatchResponded
        => LET items == sent.response.data.items
           IN  /\ sent.response.status = 200
               /\ Len(items) = Len(sent.operations)
               /\ \A k \in 1..Len(items) : items[k].success => k \in Sendable(sent.operations)
               /\ {sent.calls[j] : j \in 1..Len(sent.calls)} = Sendable(sent.operations)
               /\ \A i, j \in 1..Len(sent.calls) : i < j => sent.calls[i] < sent.calls[j]
               /\ Cardinality({k \in 1..Len(items) : items[k].success}) = upstream.lists[S_X]

\* C12 witness: a batch has responded whose first operation failed on the platform
\* and whose second operation succeeded.
C12_Witness ==
    /\ BatchResponded
    /\ Len(sent.operations) >= 2
    /\ sent.calls = <<1, 2>>
    /\ ~sent.response.data.items[1].success
    /\ sent.response.data.items[2].success

\* C13: when an admitted POST /batch responds the cache is empty, whatever
\* succeeded or failed, also for an empty list of operations.
C13_BatchLeavesCacheEmpty == BatchResponded => cache = EmptyDict

\* C13 witness: a batch with a failed operation has responded and cleared a cache
\* that held an entry.
C13_Witness ==
    /\ BatchResponded
    /\ sent.cleared > 0
    /\ \E k \in 1..Len(sent.response.data.items) : ~sent.response.data.items[k].success

\* C20: once POST /batch has responded, no read is answered with from_cache=true
\* data of a list version older than the version the writes of that batch produced.
C20_NoStaleReadAfterBatch ==
    ( sent.made /\ sent.kind = "get_records" /\ sent.response.status = 200
                /\ sent.response.from_cache = "True" )
        => sent.response.data.version >= batch_written[sent.datasheet_id]

(***************************************************************************)
(* The cached reads, with a clock that reaches the expiry of their entries *)
(***************************************************************************)
\* The max_age values the read handlers pass
MaxAges == {MaxAgeRecords, MaxAgeSpaceConfig, MaxAgeViews}

\* time.time() moves on to one tick short of max_age seconds later
AgeAlmostPasses(max_age) ==
    /\ now <= MaxTime
    /\ now' = now + max_age * TicksPerSecond - 1
    /\ sent' = NoCall
    /\ UNCHANGED <<batchVars, treeVars, vika_client, config, cache, rate_limiter, checks,
                   keyVars, cacheVars, handlers, received, upstream>>

\* time.time() moves on to max_age seconds later
AgePasses(max_age) ==
    /\ now <= MaxTime
    /\ now' = now + max_age * TicksPerSecond
    /\ sent' = NoCall
    /\ UNCHANGED <<batchVars, treeVars, vika_client, config, cache, rate_limiter, checks,
                   keyVars, cacheVars, handlers, received, upstream>>

NextReads ==
    \/ \E max_age \in MaxAges : AgeAlmostPasses(max_age)
    \/ \E max_age \in MaxAges : AgePasses(max_age)
    \/ get_records(S_X, PyNone, S_default)
    \/ get_record(S_X, S_R, S_default)
    \/ get_views(S_X, S_default)
    \/ get_space_configuration(S_spc, S_default)
    \/ \E h \in DOMAIN handlers : UpstreamAnswers(h)
    \/ \E h \in DOMAIN handlers : UpstreamFails(h)
    \/ \E h \in DOMAIN handlers : Resume(h)
    \/ \E h \in DOMAIN handlers, listing \in {<<S_X>>} : SpaceAnswers(h, listing)
    \/ \E h \in DOMAIN handlers : SpaceFails(h)
    \/ \E h \in DOMAIN handlers, views_ok, fields_ok \in BOOLEAN :
          SheetDetails(h, views_ok, fields_ok)

SpecReads == InitConfigured /\ [][NextReads]_vars

\* The request whose response is h awaited a call of the client
UpstreamCalled(h) == \E i \in DOMAIN h.trace : h.trace[i] = "upstream call"

\* The max_age of each read endpoint, in seconds
C16_MaxAge(kind) ==
    CASE kind \in {"get_records", "get_record"} -> 300
      [] kind = "get_space_configuration" -> 1800
      [] kind = "get_views" -> 3600

\* C16: a read response tagged from_cache=true comes from a request that made no
\* upstream call, and its data is the entry under the request's key, stored less
\* than the endpoint's max_age ago (300 s record reads, 1800 s space configuration,
\* 3600 s views); an entry is stored only by a miss, with the result of its own
\* upstream call, at the time of the store; a read response tagged from_cache=false
\* comes from an upstream call of that request, whose result is under the request's
\* key when the response is sent.
C16_FromCacheTagging ==
    /\ [][(sent'.made /\ sent'.response.from_cache = "True") =>
              /\ ~UpstreamCalled(sent')
              /\ sent'.cache_key \in DOMAIN cache
              /\ sent'.response.data = cache[sent'.cache_key].data
              /\ now - cache[sent'.cache_key].timestamp
                     < C16_MaxAge(sent'.kind) * TicksPerSecond]_vars
    /\ [][\A k \in DOMAIN cache' :
              (k \notin DOMAIN cache \/ cache'[k] # cache[k]) =>
                  /\ sent'.made
                  /\ sent'.cache_key = k
                  /\ sent'.response.from_cache = "False"
                  /\ UpstreamCalled(sent')
                  /\ sent'.result.made /\ sent'.result.ok
                  /\ cache'[k] = [data |-> sent'.result.data, timestamp |-> now']]_vars
    /\ [](sent.made /\ sent.response.from_cache = "False" =>
              /\ UpstreamCalled(sent)
              /\ sent.result.made /\ sent.result.ok
              /\ sent.response.data = sent.result.data
              /\ sent.cache_key \in DOMAIN cache
              /\ cache[sent.cache_key] = [data |-> sent.response.data, timestamp |-> now])

\* A record read is served from the cache one tick before its entry is 300 s old
C16_Witness ==
    /\ sent.made
    /\ sent.kind = "get_records"
    /\ sent.response.from_cache = "True"
    /\ now - cache[sent.cache_key].timestamp = MaxAgeRecords * TicksPerSecond - 1

\* The space configuration is served from the cache one tick before 1800 s
C16_SpaceConfigServedBeforeExpiry ==
    /\ sent.made
    /\ sent.kind = "get_space_configuration"
    /\ sent.response.from_cache = "True"
    /\ now - cache[sent.cache_key].timestamp = MaxAgeSpaceConfig * TicksPerSecond - 1

\* A record read misses an entry exactly 300 s old and stores the fresh result
C16_ExpiredEntryRefetched ==
    /\ sent.made
    /\ sent.kind = "get_records"
    /\ sent.response.from_cache = "False"
    /\ now >= MaxAgeRecords * TicksPerSecond
    /\ received >= 2

\* The handlers whose call has come back raising and that have not responded yet
FailedCalls(hs) == {i \in DOMAIN hs : hs[i].pc = "returned" /\ ~hs[i].result.ok}

\* C17: when the upstream call of a record handler fails, the request fails with
\* status 500 and no data, and neither the step in which the call comes back nor
\* the step in which the handler responds changes the cache: a failed read stores
\* nothing under its key and a failed create, update or delete invalidates nothing.
C17_FailedCallLeavesCache ==
    /\ [][(sent'.made /\ sent'.result.made /\ ~sent'.result.ok) =>
              /\ sent'.response.status = 500
              /\ sent'.response.data = PyNone
              /\ cache' = cache]_vars
    /\ [][Cardinality(FailedCalls(handlers')) > Cardinality(FailedCalls(handlers))
              => cache' = cache]_vars

\* A write whose call failed has responded while lists of its sheet are cached
C17_Witness ==
    /\ sent.made
    /\ sent.kind \in {"create_records", "update_record", "delete_record"}
    /\ sent.result.made /\ ~sent.result.ok
    /\ sent.response.status = 500
    /\ ListKeys(sent.datasheet_id) \cap DOMAIN cache # {}

\* A read whose call failed has responded and its key is not in the cache
C17_FailedReadStoredNothing ==
    /\ sent.made
    /\ sent.kind \in Reads
    /\ sent.result.made /\ ~sent.result.ok
    /\ sent.cache_key \notin DOMAIN cache
    /\ DOMAIN cache # {}

\* The folders below a list of nodes in depth-first pre-order: a folder, then the
\* folders of its subtree, then what follows its next sibling
RECURSIVE FoldersPreOrder(_, _)
FoldersPreOrder(s, ids) ==
    IF ids = <<>>
    THEN <<>>
    ELSE LET id == Head(ids)
         IN  (IF s.type[id] = "Folder"
              THEN <<id>> \o FoldersPreOrder(s, s.children[id])
              ELSE <<>>)
             \o FoldersPreOrder(s, Tail(ids))

IsPrefix(a, b) == Len(a) <= Len(b) /\ SubSeq(b, 1, Len(a)) = a

\* C18: within one tree fetch with quota q > 0, the folder detail fetches are issued
\* one at a time, in depth-first pre-order of the hierarchy; each is issued when a
\* sleep of its own ends, which began no earlier than the previous fetch (whose
\* answer the traversal had then received) and lasted at least 1/q seconds, so two consecutive fetches
\* start at least 1/q seconds apart; no step of the traversal changes the rate
\* limiter's timestamps.
C18_ThrottledPreOrderFetches ==
    /\ [](traversal.pc # "not started"
              => IsPrefix(traversal.fetches, FoldersPreOrder(space, space.top)))
    /\ [][LET q == ConfigGet(config, "rate_limit_qps", DefaultQps)
          IN  /\ (traversal.pc = "not started" /\ traversal'.pc # "not started" /\ q > 0)
                     => traversal'.fetches = <<>>
              /\ (traversal.pc # "not started" /\ traversal'.fetches # traversal.fetches)
                     => /\ Len(traversal'.fetches) = Len(traversal.fetches) + 1
                        /\ traversal'.pc = "awaiting details"
                        /\ traversal'.fetched_at = now'
                        /\ q > 0 =>
                              /\ traversal.pc = "sleeping"
                              /\ (now' - traversal.slept_from) * q >= TicksPerSecond
                              /\ traversal.fetches # <<>> =>
                                    /\ traversal.slept_from >= traversal.fetched_at
                                    /\ (now' - traversal.fetched_at) * q >= TicksPerSecond]_vars
    /\ [][rate_limiter' = rate_limiter]_vars

\* A fetch with a quota above zero has returned after fetching a folder, then a
\* folder inside it, then a folder of the top level
C18_Witness ==
    /\ traversal.pc = "returned"
    /\ ConfigGet(config, "rate_limit_qps", DefaultQps) > 0
    /\ Len(traversal.fetches) >= 3
    /\ \E k \in 1..Len(space.children[traversal.fetches[1]]) :
           space.children[traversal.fetches[1]][k] = traversal.fetches[2]
    /\ \E k \in 1..Len(space.top) : space.top[k] = traversal.fetches[3]

\* The nodes reachable from a list of nodes through the children of folders
RECURSIVE ReachableFrom(_, _)
ReachableFrom(s, ids) ==
    IF ids = <<>>
    THEN {}
    ELSE {Head(ids)}
         \cup (IF s.type[Head(ids)] = "Folder"
               THEN ReachableFrom(s, s.children[Head(ids)])
               ELSE {})
         \cup ReachableFrom(s, Tail(ids))

\* How many of the detail fetches issued were for the node id
FetchesOf(id) == Cardinality({k \in DOMAIN traversal.fetches : traversal.fetches[k] = id})

\* C19: on every finite hierarchy in which no folder is its own descendant, with a
\* platform that answers every call, a tree fetch that was called returns, and when
\* it has returned it has issued exactly one detail fetch for each Folder reachable
\* from the top-level list and none for any other node.
C19_FetchTerminatesOncePerFolder ==
    /\ (traversal.pc # "not started") ~> (traversal.pc = "returned")
    /\ [](traversal.pc = "returned" =>
             \A id \in NodeIds :
                 FetchesOf(id) = IF /\ id \in ReachableFrom(space, space.top)
                                    /\ space.type[id] = "Folder"
                                 THEN 1 ELSE 0)

\* A fetch has returned, after more sleeping than MaxTime, on a hierarchy with at
\* least two folders and a reachable node that is no folder
C19_Witness ==
    /\ traversal.pc = "returned"
    /\ now > MaxTime
    /\ Len(traversal.fetches) >= 2
    /\ \E id \in ReachableFrom(space, space.top) : space.type[id] # "Folder"

\* The coroutines of a handler of the configuration in the given states
TasksIn(q, states) ==
    {<<k, part>> \in (1..Len(q.tasks)) \X Parts : q.tasks[k][part] \in states}

\* C21: in GET /spaces/{id}/configuration the views and fields fetches of all the
\* datasheets listed are in flight together: while the handler waits for the
\* fetches of a datasheet, no fetch of another listed datasheet is still to be
\* started; and the response is produced only after every fetch has completed or
\* failed.
C21_DetailFetchesFanOut ==
    /\ \A h \in DOMAIN handlers :
           (handlers[h].kind = "get_space_configuration" /\ handlers[h].pc = "awaiting sheet")
               => TasksIn(handlers[h], {"created"}) = {}
    /\ (sent.made /\ sent.kind = "get_space_configuration"
            /\ sent.response.status = 200 /\ sent.response.from_cache = "False")
           => TasksIn(sent, {"created", "running"}) = {}

\* The second half of C21 alone: no response while a fetch is still running
C21_ResponseAfterEveryFetch ==
    (sent.made /\ sent.kind = "get_space_configuration"
        /\ sent.response.status = 200 /\ sent.response.from_cache = "False")
       => TasksIn(sent, {"running"}) = {}

\* What holds instead of the first half: one datasheet's fetches run at a time
C21_OneDatasheetAtATime ==
    \A h \in DOMAIN handlers :
        (handlers[h].kind = "get_space_configuration" /\ handlers[h].pc = "awaiting sheet")
            => \A k \in 1..Len(handlers[h].tasks) :
                   /\ k > Len(handlers[h].details) + 1
                          => handlers[h].tasks[k] = [views |-> "created", fields |-> "created"]
                   /\ k = Len(handlers[h].details) + 1
                          => \A part \in Parts : handlers[h].tasks[k][part] \in {"running", "done"}

\* The detail fetches the running tree requests started from time t1 up to, not
\* including, time t2
StartedWithin(t1, t2) ==
    {<<h, i>> \in (DOMAIN handlers) \X (1..MaxNodes) :
        /\ i <= Len(handlers[h].fetch_times)
        /\ t1 <= handlers[h].fetch_times[i]
        /\ handlers[h].fetch_times[i] < t2}

\* C22: with a fixed quota q > 0, in any 1-second window at most q folder detail
\* fetches are started in total across the tree requests that are running, also
\* when several admitted requests run concurrently.
C22_ThrottleBoundsTotalFetchRate ==
    \A t \in 0..now :
        Cardinality(StartedWithin(t, t + TicksPerSecond))
            <= ConfigGet(config, "rate_limit_qps", DefaultQps)

\* What holds instead: each running request by itself starts at most q detail
\* fetches in any 1-second window
C22_EachRequestWithinQuota ==
    \A h \in DOMAIN handlers : \A t \in 0..now :
        Cardinality({p \in StartedWithin(t, t + TicksPerSecond) : p[1] = h})
            <= ConfigGet(config, "rate_limit_qps", DefaultQps)

\* The timestamps of an operation that count at time t: those less than 1.0 s old
InWindow(operation, t) ==
    IF operation \in DOMAIN rate_limiter
    THEN SelectSeq(rate_limiter[operation], LAMBDA at : t - at < TicksPerSecond)
    ELSE <<>>

\* Where a name stands in a trace (0 when it does not)
PlaceIn(trace, name) ==
    IF \E i \in DOMAIN trace : trace[i] = name
    THEN CHOOSE i \in DOMAIN trace : trace[i] = name
    ELSE 0

\* C23: on the read endpoints the admission check comes before the cache lookup.
\* When a read arrives while the operation's window is full it is denied with 429,
\* the cache is not looked at and no timestamp is recorded, also when its data is
\* in the cache; otherwise exactly one timestamp, the time of arrival, is added to
\* the window, whether the read is then answered from the cache or goes upstream.
C23_AdmissionBeforeCacheLookup ==
    [][received' = received + 1 =>
          LET window == InWindow(S_default, now)
              denied == Len(window) >= Quota
              answered == sent'.made
              arrived == IF answered THEN sent' ELSE handlers'[Len(handlers')]
          IN  /\ arrived.operation = S_default
              /\ IF denied
                 THEN /\ answered
                      /\ sent'.response.status = 429
                      /\ PlaceIn(sent'.trace, "get_from_cache") = 0
                      /\ cache' = cache
                      /\ handlers' = handlers
                      /\ rate_limiter'[S_default] = window
                 ELSE /\ rate_limiter'[S_default] = Append(window, now)
                      /\ PlaceIn(arrived.trace, "rate_limit_check") > 0
                      /\ PlaceIn(arrived.trace, "rate_limit_check")
                             < PlaceIn(arrived.trace, "get_from_cache")
                      /\ answered => /\ sent'.response.from_cache = "True"
                                     /\ handlers' = handlers
                      /\ ~answered => Len(handlers') = Len(handlers) + 1]_vars

\* A read whose data is in the cache, fresh, has been denied: the window was full
C23_Witness ==
    /\ sent.made
    /\ sent.response.status = 429
    /\ sent.cache_key \in DOMAIN cache
    /\ now - cache[sent.cache_key].timestamp < TicksPerSecond
    /\ Len(InWindow(S_default, now)) = Quota

\* A read answered from the cache has left its timestamp in the window beside the
\* one of the miss before it
C23_HitCounted ==
    /\ sent.made
    /\ sent.response.from_cache = "True"
    /\ Len(InWindow(S_default, now)) = 2

================================================================================
